---- MODULE Spec2Model ----
(***************************************************************************)
(* Recorder statistics: compilation of 5-minute statistics, the hourly     *)
(* rollup, external import, sum adjustment, the duplicate resolver and the *)
(* range query of homeassistant/components/recorder/statistics.py.         *)
(*                                                                         *)
(* Instants are integers (seconds, UTC).  A nullable column holds None     *)
(* (the empty tuple) or a one-element tuple; a float column holds None or  *)
(* an exact fraction <<numerator, denominator>> in lowest terms, so that   *)
(* an average is computed, not assumed (rounding is not modelled).         *)
(***************************************************************************)
EXTENDS Integers, Sequences, FiniteSets, TLC

VARIABLES
    statistics_meta,        \* table StatisticsMeta
    statistics_short_term,  \* table StatisticsShortTerm (5-minute buckets)
    statistics,             \* table Statistics (hourly buckets)
    statistics_runs,        \* table StatisticsRuns (run markers)
    op,                     \* the entry point that ran last, its arguments and outcome
    adjustments,            \* how many sum adjustments were applied
    resolver,               \* delete_duplicates: its position and its locals
    backup,                 \* the file deleted_statistics.<time>.json, None while unwritten
    tables_before,          \* the bucket tables as delete_duplicates found them
    result,                 \* what the last range query returned
    queue,                  \* the recorder's queue of add_external_statistics jobs
    ticks                   \* the periods of the ticks that are past the marker check

tables == <<statistics_meta, statistics_short_term, statistics, statistics_runs>>

resolver_vars == <<resolver, backup, tables_before>>

-----------------------------------------------------------------------------
(* Values *)

None == << >>

Some(x) == <<x>>

RECURSIVE GCD(_, _)
GCD(a, b) == IF b = 0 THEN a ELSE GCD(b, a % b)

Abs(x) == IF x < 0 THEN -x ELSE x

\* The float n/d (d > 0), in lowest terms.
Rat(n, d) ==
    LET g == GCD(Abs(n), d) IN <<n \div g, d \div g>>

Float(n) == <<n, 1>>

RatAdd(p, q) ==
    LET g == GCD(p[2], q[2])
        l == (p[2] \div g) * q[2]
    IN  Rat(p[1] * (l \div p[2]) + q[1] * (l \div q[2]), l)

\* The product, the common factors taken out before the multiplication
RatMul(p, q) ==
    LET g == GCD(Abs(p[1]), q[2])
        h == GCD(Abs(q[1]), p[2])
    IN  Rat((p[1] \div g) * (q[1] \div h), (p[2] \div h) * (q[2] \div g))

RatLess(p, q) == p[1] * q[2] < q[1] * p[2]

RECURSIVE RatSum(_)
RatSum(S) ==
    IF S = {} THEN Float(0)
    ELSE LET x == CHOOSE y \in S : TRUE IN RatAdd(x.v, RatSum(S \ {x}))

Max(S) == CHOOSE x \in S : \A y \in S : y <= x

-----------------------------------------------------------------------------
(* Time *)

FiveMinutes == 300

Hour == 3600

\* datetime.minute of an instant (UTC)
minute(t) == (t \div 60) % 60

\* datetime.replace(minute=0): seconds and microseconds are kept
replace_minute_0(t) == t - minute(t) * 60

\* models.process_timestamp: the same instant, made timezone-aware in UTC
process_timestamp(ts) == ts

-----------------------------------------------------------------------------
(* The store.  A surrogate id is the table's next free integer.  The store *)
(* enforces the unique indexes: a flush or commit of a session that holds  *)
(* two rows with one key raises an integrity error.                        *)

NextId(table) == IF table = {} THEN 1 ELSE Max({r.id : r \in table}) + 1

\* (metadata_id, start) is unique in a bucket table
BucketKeysUnique(table) ==
    \A r1, r2 \in table :
        (r1.metadata_id = r2.metadata_id /\ r1.start = r2.start) => r1.id = r2.id

\* statistic_id is unique in the metadata table
StatisticIdsUnique(meta) ==
    \A m1, m2 \in meta : m1.statistic_id = m2.statistic_id => m1.id = m2.id

\* As UniqueIndexesHold, the store without its unique indexes
UniqueIndexesHoldLax(W) == TRUE

UniqueIndexesHold(W) ==
    /\ StatisticIdsUnique(W.meta)
    /\ BucketKeysUnique(W.short_term)
    /\ BucketKeysUnique(W.statistics)

\* A session: the tables as the open transaction sees them, and the error
\* raised in it so far ("none", or the kind of the exception).
Session ==
    [meta |-> statistics_meta, short_term |-> statistics_short_term,
     statistics |-> statistics, runs |-> statistics_runs, err |-> "none"]

\* session.flush(), and the autoflush before a query: pending rows reach
\* the store, which raises on a violated unique index.
flush(W) ==
    IF W.err = "none" /\ ~UniqueIndexesHold(W)
    THEN [W EXCEPT !.err = "unique_constraint"]
    ELSE W

\* _filter_unique_constraint_integrity_error: TRUE (ignore) exactly for the
\* store's unique-constraint error.
filter_unique_constraint_integrity_error(err) == err = "unique_constraint"

\* What the store may raise in a session: a StatementError that reports a
\* violated unique index, another StatementError, and another exception
StorageErrors == {"unique_constraint", "statement_error", "error"}

\* The storage failures a session may meet: none, or err raised when stage
\* steps of the session are done
Faults(stages) ==
    {None} \cup {Some([stage |-> k, err |-> e]) : k \in 0..stages, e \in StorageErrors}

\* The session W when the storage fails as fault says
storage_raises(W, fault) ==
    IF fault = None \/ W.err # "none" THEN W ELSE [W EXCEPT !.err = fault[1].err]

\* As session_scope, what the failed session wrote kept in the store
session_scope_keeping(W) == W

\* util.session_scope when the body is left: the store after the commit, or
\* as the session found it when the body or the commit raised
session_scope(W) == IF W.err = "none" THEN W ELSE [Session EXCEPT !.err = W.err]

-----------------------------------------------------------------------------
(* Metadata Registry *)

\* StatisticsMeta.from_meta
from_meta(id, new_metadata) ==
    [id |-> id,
     statistic_id |-> new_metadata.statistic_id,
     source |-> new_metadata.source,
     unit_of_measurement |-> new_metadata.unit_of_measurement,
     has_mean |-> new_metadata.has_mean,
     has_sum |-> new_metadata.has_sum,
     name |-> new_metadata.name]

\* The StatisticMetaData of a stored row
meta_of(m) ==
    [statistic_id |-> m.statistic_id,
     source |-> m.source,
     unit_of_measurement |-> m.unit_of_measurement,
     has_mean |-> m.has_mean,
     has_sum |-> m.has_sum,
     name |-> m.name]

\* get_metadata_with_session(statistic_ids=...): statistic_id -> (id, meta).
\* statistic_ids = None selects all.
get_metadata_with_session(meta, statistic_ids) ==
    LET sel == {m \in meta : statistic_ids = None \/ m.statistic_id \in statistic_ids[1]}
    IN  [sid \in {m.statistic_id : m \in sel} |->
            LET m == CHOOSE x \in sel : x.statistic_id = sid
            IN  [id |-> m.id, meta |-> meta_of(m)]]

\* As update_or_add_metadata, a known series described anew by the candidate
update_or_add_metadata_replacing(W, new_metadata, old_metadata_dict) ==
    LET id == IF new_metadata.statistic_id \in DOMAIN old_metadata_dict
              THEN old_metadata_dict[new_metadata.statistic_id].id
              ELSE NextId(W.meta)
    IN  [W |-> flush([W EXCEPT !.meta = {m \in @ : m.id # id}
                                         \cup {from_meta(id, new_metadata)}]),
         id |-> id]

\* _update_or_add_metadata: the session afterwards and the metadata id.
update_or_add_metadata(W, new_metadata, old_metadata_dict) ==
    LET statistic_id == new_metadata.statistic_id IN
    IF statistic_id \notin DOMAIN old_metadata_dict
    THEN LET id == NextId(W.meta)
         IN  [W |-> flush([W EXCEPT !.meta = @ \cup {from_meta(id, new_metadata)}]),
              id |-> id]
    ELSE LET old == old_metadata_dict[statistic_id]
             differs ==
                 \/ old.meta.has_mean # new_metadata.has_mean
                 \/ old.meta.has_sum # new_metadata.has_sum
                 \/ old.meta.unit_of_measurement # new_metadata.unit_of_measurement
             upd(m) ==
                 IF m.statistic_id = statistic_id
                 THEN [m EXCEPT !.has_mean = new_metadata.has_mean,
                                !.has_sum = new_metadata.has_sum,
                                !.unit_of_measurement = new_metadata.unit_of_measurement]
                 ELSE m
         IN  [W |-> IF differs
                    THEN LET F == flush(W)
                         IN  IF F.err # "none" THEN F
                             ELSE [F EXCEPT !.meta = {upd(m) : m \in F.meta}]
                    ELSE W,
              id |-> old.id]

-----------------------------------------------------------------------------
(* Bucket rows *)

\* Statistics.from_stats / StatisticsShortTerm.from_stats: a key the
\* StatisticData does not carry is a NULL column.
Get(stat, key) == IF key \in DOMAIN stat THEN stat[key] ELSE None

from_stats(id, metadata_id, stat) ==
    [id |-> id,
     created |-> id,
     metadata_id |-> metadata_id,
     start |-> stat.start,
     mean |-> Get(stat, "mean"),
     min |-> Get(stat, "min"),
     max |-> Get(stat, "max"),
     last_reset |-> Get(stat, "last_reset"),
     state |-> Get(stat, "state"),
     sum |-> Get(stat, "sum")]

\* _insert_statistics: session.add of a new row (no flush)
insert_statistics(table, metadata_id, statistic) ==
    table \cup {from_stats(NextId(table), metadata_id, statistic)}

-----------------------------------------------------------------------------
(* Hourly Rollup *)

\* As in_period, the lower bound of the hour forgotten
in_period_unbounded_below(table, start_time, end_time) ==
    {r \in table : r.start < end_time}

\* .filter(start >= start_time).filter(start < end_time)
in_period(table, start_time, end_time) ==
    {r \in table : r.start >= start_time /\ r.start < end_time}

\* func.avg(mean): the mean of the non-NULL values, NULL when there is none
sql_avg(rows) ==
    LET S == {[id |-> r.id, v |-> r.mean] : r \in {x \in rows : x.mean # None}}
        s == RatSum(S)
    IN  IF S = {} THEN None ELSE Rat(s[1], s[2] * Cardinality(S))

\* func.min(min)
sql_min(rows) ==
    LET V == {r.min : r \in {x \in rows : x.min # None}}
    IN  IF V = {} THEN None ELSE CHOOSE v \in V : \A w \in V : ~RatLess(w, v)

\* func.max(max)
sql_max(rows) ==
    LET V == {r.max : r \in {x \in rows : x.max # None}}
    IN  IF V = {} THEN None ELSE CHOOSE v \in V : \A w \in V : ~RatLess(v, w)

\* _compile_hourly_statistics_summary_mean_stmt, grouped by metadata_id
summary_mean(short_term, start_time, end_time) ==
    LET rows == in_period(short_term, start_time, end_time)
    IN  [mid \in {r.metadata_id : r \in rows} |->
            LET g == {r \in rows : r.metadata_id = mid}
            IN  [start |-> start_time, mean |-> sql_avg(g),
                 min |-> sql_min(g), max |-> sql_max(g)]]

\* As summary_sum, the rows numbered by start ascending
summary_sum_ascending(short_term, start_time, end_time) ==
    LET rows == in_period(short_term, start_time, end_time)
    IN  [mid \in {r.metadata_id : r \in rows} |->
            LET g == {r \in rows : r.metadata_id = mid}
                first == CHOOSE r \in g : \A x \in g : r.start <= x.start
            IN  [last_reset |-> process_timestamp(first.last_reset),
                 state |-> first.state, sum |-> first.sum]]

\* QUERY_STATISTICS_SUMMARY_SUM with rownum == 1: per metadata_id the row
\* that comes first by start descending
summary_sum(short_term, start_time, end_time) ==
    LET rows == in_period(short_term, start_time, end_time)
    IN  [mid \in {r.metadata_id : r \in rows} |->
            LET g == {r \in rows : r.metadata_id = mid}
                last == CHOOSE r \in g : \A x \in g : x.start <= r.start
            IN  [last_reset |-> process_timestamp(last.last_reset),
                 state |-> last.state, sum |-> last.sum]]

\* As hourly_summary, for the series alone whose rows of the hour carry a mean
hourly_summary_of_means(short_term, start_time, end_time) ==
    LET means == summary_mean(short_term, start_time, end_time)
    IN  [mid \in {m \in DOMAIN means : means[m].mean # None} |-> means[mid]]

\* The summary dict of compile_hourly_statistics: metadata_id -> StatisticData
hourly_summary(short_term, start_time, end_time) ==
    LET means == summary_mean(short_term, start_time, end_time)
        sums == summary_sum(short_term, start_time, end_time)
    IN  [mid \in DOMAIN means \cup DOMAIN sums |->
            IF mid \in DOMAIN means /\ mid \in DOMAIN sums
            THEN [start |-> means[mid].start, mean |-> means[mid].mean,
                  min |-> means[mid].min, max |-> means[mid].max,
                  last_reset |-> sums[mid].last_reset,
                  state |-> sums[mid].state, sum |-> sums[mid].sum]
            ELSE IF mid \in DOMAIN means
            THEN means[mid]
            ELSE [start |-> start_time, last_reset |-> sums[mid].last_reset,
                  state |-> sums[mid].state, sum |-> sums[mid].sum]]

\* for metadata_id, stat in summary.items(): session.add(Statistics.from_stats(...))
RECURSIVE insert_summary(_, _, _)
insert_summary(table, summary, todo) ==
    IF todo = {} THEN table
    ELSE LET mid == CHOOSE m \in todo : \A x \in todo : m <= x
         IN  insert_summary(insert_statistics(table, mid, summary[mid]),
                            summary, todo \ {mid})

\* The hour compile_hourly_statistics(start) summarizes
hourly_start_time(start) == replace_minute_0(start)

compile_hourly_statistics(W, start) ==
    LET start_time == hourly_start_time(start)
        end_time == start_time + Hour
        F == flush(W)
        summary == hourly_summary(F.short_term, start_time, end_time)
    IN  IF F.err # "none" THEN F
        ELSE [F EXCEPT !.statistics = insert_summary(@, summary, DOMAIN summary)]

-----------------------------------------------------------------------------
(* Short-Term Compiler *)

\* As full_hour_ready, the rollup taken by the tick that starts an hour
full_hour_ready_at_hour_start(start) == minute(start) = 0

\* The tick takes the rollup when this holds
full_hour_ready(start) == minute(start) = 55

\* for stats in platform_stats: _update_or_add_metadata, _insert_statistics
RECURSIVE insert_platform_stats(_, _, _)
insert_platform_stats(W, platform_stats, current_metadata) ==
    IF platform_stats = << >> \/ W.err # "none" THEN W
    ELSE LET stats == Head(platform_stats)
             m == update_or_add_metadata(W, stats.meta, current_metadata)
             W2 == IF m.W.err # "none" THEN m.W
                   ELSE [m.W EXCEPT
                            !.short_term = insert_statistics(@, m.id, stats.stat)]
         IN  insert_platform_stats(W2, Tail(platform_stats), current_metadata)

NextRunId(runs) == IF runs = {} THEN 1 ELSE Max({r.run_id : r \in runs}) + 1

\* As already_compiled, the marker never found
already_compiled_never(runs, start) == FALSE

\* session.query(StatisticsRuns).filter_by(start=start).first()
already_compiled(runs, start) == \E r \in runs : r.start = start

\* As compile_statistics_persist, the hour summarized before the rows of the
\* platforms are inserted
compile_statistics_persist_rollup_first(start, platform_stats, current_metadata) ==
    LET W1 == IF full_hour_ready(start) THEN compile_hourly_statistics(Session, start)
              ELSE Session
        W2 == insert_platform_stats(W1, platform_stats, current_metadata)
        W3 == IF W2.err = "none"
              THEN [W2 EXCEPT !.runs = @ \cup {[run_id |-> NextRunId(@), start |-> start]}]
              ELSE W2
    IN  flush(W3)

\* The body of the second session_scope of compile_statistics, up to the
\* commit that ends the scope.
compile_statistics_persist(start, platform_stats, current_metadata) ==
    LET W1 == insert_platform_stats(Session, platform_stats, current_metadata)
        W2 == IF W1.err = "none" /\ full_hour_ready(start)
              THEN compile_hourly_statistics(W1, start)
              ELSE W1
        W3 == IF W2.err = "none"
              THEN [W2 EXCEPT !.runs = @ \cup {[run_id |-> NextRunId(@), start |-> start]}]
              ELSE W2
    IN  flush(W3)

\* The session of compile_statistics when the storage fails as fault says:
\* before the first statement, after the platforms' rows, after the rollup,
\* or at the commit; without fault, the whole body
compile_statistics_partial(start, platform_stats, current_metadata, fault) ==
    LET W1 == insert_platform_stats(Session, platform_stats, current_metadata)
    IN  IF fault = None \/ fault[1].stage >= 3
        THEN compile_statistics_persist(start, platform_stats, current_metadata)
        ELSE IF fault[1].stage = 0 THEN Session
        ELSE IF fault[1].stage = 1 THEN W1
        ELSE IF W1.err = "none" /\ full_hour_ready(start)
        THEN compile_hourly_statistics(W1, start)
        ELSE W1

-----------------------------------------------------------------------------
(* External Statistics Importer *)

\* As statistics_exists, no row ever found
statistics_exists_never(table, metadata_id, start) == {}

\* _statistics_exists: the ids of the rows at (metadata_id, start); the code
\* takes the first
statistics_exists(table, metadata_id, start) ==
    {r.id : r \in {x \in table : x.metadata_id = metadata_id /\ x.start = start}}

\* As update_statistics, the row left as it was
update_statistics_nothing(table, stat_id, statistic) == table

\* _update_statistics: the six value columns of row stat_id are overwritten
update_statistics(table, stat_id, statistic) ==
    {IF r.id = stat_id
     THEN [r EXCEPT !.mean = Get(statistic, "mean"),
                    !.min = Get(statistic, "min"),
                    !.max = Get(statistic, "max"),
                    !.last_reset = Get(statistic, "last_reset"),
                    !.state = Get(statistic, "state"),
                    !.sum = Get(statistic, "sum")]
     ELSE r : r \in table}

\* for stat in statistics: update the row at (metadata_id, start) or insert one
RECURSIVE import_statistics(_, _, _)
import_statistics(W, metadata_id, stats) ==
    IF stats = << >> \/ W.err # "none" THEN W
    ELSE LET F == flush(W)
             stat == Head(stats)
             ids == statistics_exists(F.statistics, metadata_id, stat.start)
             W2 == IF F.err # "none" THEN F
                   ELSE IF ids # {}
                   THEN [F EXCEPT !.statistics =
                            update_statistics(@, CHOOSE i \in ids : TRUE, stat)]
                   ELSE [F EXCEPT !.statistics =
                            insert_statistics(@, metadata_id, stat)]
         IN  import_statistics(W2, metadata_id, Tail(stats))

\* The body of the session_scope of add_external_statistics, up to the
\* commit, in a session that finds the store as W
add_external_statistics_session(W, metadata, stats) ==
    LET old_metadata_dict ==
            get_metadata_with_session(W.meta, Some({metadata.statistic_id}))
        m == update_or_add_metadata(W, metadata, old_metadata_dict)
    IN  flush(import_statistics(m.W, m.id, stats))

add_external_statistics_persist(metadata, stats) ==
    add_external_statistics_session(Session, metadata, stats)

\* The first sample of stats for which _update_statistics is called: its row
\* is in the store, or an earlier sample of stats has its start; 0 when there
\* is none
first_updated(metadata, stats) ==
    LET ids == {m.id : m \in {x \in statistics_meta :
                                 x.statistic_id = metadata.statistic_id}}
        updated == {k \in DOMAIN stats :
                      \/ \E r \in statistics :
                            r.metadata_id \in ids /\ r.start = stats[k].start
                      \/ \E j \in 1..(k - 1) : stats[j].start = stats[k].start}
    IN  IF updated = {} THEN 0
        ELSE CHOOSE k \in updated : \A j \in updated : k <= j

\* _update_statistics: except SQLAlchemyError.  The UPDATE of sample k raised
\* err, a StatementError: it is logged, the row keeps its values and the loop
\* goes on with the next sample
update_statistics_logged(metadata, stats, k) ==
    add_external_statistics_persist(
        metadata, [i \in 1..(Len(stats) - 1) |-> IF i < k THEN stats[i] ELSE stats[i + 1]])

\* The session of add_external_statistics when the storage fails as fault
\* says: before the first statement, after the metadata, or at the commit
add_external_statistics_partial(metadata, stats, fault) ==
    LET old_metadata_dict ==
            get_metadata_with_session(statistics_meta, Some({metadata.statistic_id}))
    IN  IF fault = None \/ fault[1].stage >= 2
        THEN add_external_statistics_persist(metadata, stats)
        ELSE IF fault[1].stage = 0 THEN Session
        ELSE update_or_add_metadata(Session, metadata, old_metadata_dict).W

-----------------------------------------------------------------------------
(* Unit Conversion Layer *)

PRESSURE_PA == "Pa"

PRESSURE_PSI == "psi"

TEMP_CELSIUS == "C"

TEMP_FAHRENHEIT == "F"

\* cubic metres
VOLUME_CUBIC_METERS == "m3"

\* cubic feet
VOLUME_CUBIC_FEET == "ft3"

\* hass.config.units
METRIC_SYSTEM ==
    [is_metric |-> TRUE, pressure_unit |-> PRESSURE_PA,
     temperature_unit |-> TEMP_CELSIUS]

IMPERIAL_SYSTEM ==
    [is_metric |-> FALSE, pressure_unit |-> PRESSURE_PSI,
     temperature_unit |-> TEMP_FAHRENHEIT]

UnitSystems == {METRIC_SYSTEM, IMPERIAL_SYSTEM}

\* _configured_unit, on a nullable unit
configured_unit(unit, units) ==
    IF unit = Some(PRESSURE_PA) THEN Some(units.pressure_unit)
    ELSE IF unit = Some(TEMP_CELSIUS) THEN Some(units.temperature_unit)
    ELSE IF unit = Some(VOLUME_CUBIC_METERS)
    THEN (IF units.is_metric THEN Some(VOLUME_CUBIC_METERS)
          ELSE Some(VOLUME_CUBIC_FEET))
    ELSE unit

\* One cubic foot in cubic metres: 0.0283168
CubicFootInCubicMeters == <<17698, 625000>>

\* volume_util.convert between cubic metres and cubic feet
volume_convert(x, from_unit, to_unit) ==
    IF from_unit = to_unit THEN x
    ELSE IF from_unit = VOLUME_CUBIC_FEET
    THEN RatMul(x, CubicFootInCubicMeters)
    ELSE RatMul(x, <<CubicFootInCubicMeters[2], CubicFootInCubicMeters[1]>>)

\* DISPLAY_UNIT_TO_STATISTIC_UNIT_CONVERSIONS.get(display_unit, lambda x, units: x)
display_unit_to_statistic_unit(display_unit, x, units) ==
    IF display_unit = Some(VOLUME_CUBIC_FEET)
    THEN volume_convert(x, configured_unit(Some(VOLUME_CUBIC_METERS), units)[1],
                        VOLUME_CUBIC_METERS)
    ELSE x

-----------------------------------------------------------------------------
(* Sum Adjuster *)

\* As adjust_sum_statistics, start_time forgotten
adjust_sum_statistics_every_row(table, metadata_id, start_time, adj) ==
    {IF r.metadata_id = metadata_id
     THEN [r EXCEPT !.sum = IF @ = None THEN None ELSE RatAdd(@, adj)]
     ELSE r : r \in table}

\* As adjust_sum_statistics, the state adjusted with the sum
adjust_sum_statistics_and_state(table, metadata_id, start_time, adj) ==
    {IF r.metadata_id = metadata_id /\ r.start >= start_time
     THEN [r EXCEPT !.sum = IF @ = None THEN None ELSE RatAdd(@, adj),
                    !.state = IF @ = None THEN None ELSE RatAdd(@, adj)]
     ELSE r : r \in table}

\* As adjust_sum_statistics, a NULL sum taken for 0
adjust_sum_statistics_null_as_zero(table, metadata_id, start_time, adj) ==
    {IF r.metadata_id = metadata_id /\ r.start >= start_time
     THEN [r EXCEPT !.sum = IF @ = None THEN adj ELSE RatAdd(@, adj)]
     ELSE r : r \in table}

\* _adjust_sum_statistics: sum = sum + adj where start >= start_time; a NULL
\* sum stays NULL
adjust_sum_statistics(table, metadata_id, start_time, adj) ==
    {IF r.metadata_id = metadata_id /\ r.start >= start_time
     THEN [r EXCEPT !.sum = IF @ = None THEN None ELSE RatAdd(@, adj)]
     ELSE r : r \in table}

-----------------------------------------------------------------------------
(* Duplicate Resolver *)

\* const.MAX_ROWS_TO_PURGE, scaled down: the ids one DELETE names
MAX_ROWS_TO_PURGE == 1

\* The factor 1000 of .limit(1000 * MAX_ROWS_TO_PURGE), scaled down
ScanFactor == 3

Min(a, b) == IF a <= b THEN a ELSE b

\* As scan_order, the rows of a group by id ascending
scan_order_id_ascending(r, x) ==
    \/ r.metadata_id < x.metadata_id
    \/ r.metadata_id = x.metadata_id /\ r.start < x.start
    \/ r.metadata_id = x.metadata_id /\ r.start = x.start /\ r.id <= x.id

\* .order_by(table.metadata_id, table.start, table.id.desc()): r comes no
\* later than x
scan_order(r, x) ==
    \/ r.metadata_id < x.metadata_id
    \/ r.metadata_id = x.metadata_id /\ r.start < x.start
    \/ r.metadata_id = x.metadata_id /\ r.start = x.start /\ r.id >= x.id

\* The rows in scan order: each row at one more than the rows before it
order_by(rows) ==
    [k \in 1..Cardinality(rows) |->
        CHOOSE r \in rows :
            Cardinality({x \in rows : x # r /\ scan_order(x, r)}) = k - 1]

\* As limit, one row
limit_one(rows, n) == SubSeq(rows, 1, Min(1, Len(rows)))

\* .limit(n)
limit(rows, n) == SubSeq(rows, 1, Min(n, Len(rows)))

\* The rows of the groups .group_by(metadata_id, start).having(count() > 1)
is_duplicate(table) ==
    {r \in table :
        \E x \in table \ {r} : x.metadata_id = r.metadata_id /\ x.start = r.start}

columns_to_dict(duplicate) == duplicate

\* As compare_statistic_rows, created compared too
compare_statistic_rows_and_created(row1, row2) ==
    LET keys1 == DOMAIN row1 \ {"id"}
        keys2 == DOMAIN row2 \ {"id"}
    IN  keys1 = keys2 /\ \A k \in keys1 : row1[k] = row2[k]

\* compare_statistic_rows: equal but for id and created
compare_statistic_rows(row1, row2) ==
    LET keys1 == DOMAIN row1 \ {"id", "created"}
        keys2 == DOMAIN row2 \ {"id", "created"}
    IN  keys1 = keys2 /\ \A k \in keys1 : row1[k] = row2[k]

\* The loop of _find_duplicates from the k-th scanned row on: the rows it
\* takes for duplicates, each with the original of its group; original is
\* None before the first row
RECURSIVE find_duplicates_loop(_, _, _)
find_duplicates_loop(duplicates, k, original) ==
    IF k > Len(duplicates) THEN << >>
    ELSE IF \/ original = None
            \/ original[1].start # duplicates[k].start
            \/ original[1].metadata_id # duplicates[k].metadata_id
         THEN find_duplicates_loop(duplicates, k + 1,
                                   Some(columns_to_dict(duplicates[k])))
         ELSE <<[duplicate |-> columns_to_dict(duplicates[k]),
                 original |-> original[1]]>>
              \o find_duplicates_loop(duplicates, k + 1, original)

non_identical(pair) == ~compare_statistic_rows(pair.original, pair.duplicate)

\* The query of _find_duplicates(session, table), executed
find_duplicates_query(table) ==
    limit(order_by(is_duplicate(table)), ScanFactor * MAX_ROWS_TO_PURGE)

\* duplicate_ids as the loop leaves it
duplicate_ids_of(found) == [k \in 1..Len(found) |-> found[k].duplicate.id]

\* non_identical_duplicates_as_dict as the loop leaves it
non_identical_duplicates_of(found) == SelectSeq(found, non_identical)

\* As extend, the records of the passes before dropped
extend_replacing(list, more) == more

\* list.extend(more)
extend(list, more) == list \o more

\* As json_dump, nothing written
json_dump_nothing(obj) == << >>

\* json.dump(non_identical_duplicates, backup_file, ...): the file's content
json_dump(obj) == obj

\* The rows of the table the resolver works on
resolver_table == 
    IF resolver.table = "statistics" THEN statistics ELSE statistics_short_term

\* _delete_duplicates_from_table is entered for the table
enter_delete_duplicates_from_table(table) ==
    [pc |-> "find", table |-> table, duplicate_ids |-> << >>, i |-> 0,
     all_non_identical_duplicates |-> << >>, total_deleted_rows |-> 0]

\* One pass of the while loop up to its DELETE statements: _find_duplicates,
\* its query and its loop, and the break when it finds nothing
FindDuplicates ==
    /\ resolver.pc = "find"
    /\ \E duplicates \in {find_duplicates_query(resolver_table)} :
         \E found \in {find_duplicates_loop(duplicates, 1, None)} :
            IF duplicate_ids_of(found) = << >>
            THEN resolver' = [resolver EXCEPT
                     !.pc = IF resolver.table = "statistics"
                            THEN "backup" ELSE "returned"]
            ELSE resolver' = [resolver EXCEPT
                     !.pc = "delete",
                     !.duplicate_ids = duplicate_ids_of(found),
                     !.i = 0,
                     !.all_non_identical_duplicates =
                         extend(@, non_identical_duplicates_of(found))]
    /\ UNCHANGED <<tables, op, adjustments, backup, tables_before, result, queue, ticks>>

\* One DELETE statement: the ids duplicate_ids[i : i + MAX_ROWS_TO_PURGE]
DeleteBatch ==
    /\ resolver.pc = "delete"
    /\ LET last == Min(resolver.i + MAX_ROWS_TO_PURGE, Len(resolver.duplicate_ids))
           ids == {resolver.duplicate_ids[k] : k \in (resolver.i + 1)..last}
           kept == {r \in resolver_table : r.id \notin ids}
           deleted_rows == Cardinality(resolver_table) - Cardinality(kept)
       IN  /\ IF resolver.table = "statistics"
              THEN statistics' = kept /\ UNCHANGED statistics_short_term
              ELSE statistics_short_term' = kept /\ UNCHANGED statistics
           /\ resolver' = [resolver EXCEPT
                    !.i = @ + MAX_ROWS_TO_PURGE,
                    !.total_deleted_rows = @ + deleted_rows,
                    !.pc = IF resolver.i + MAX_ROWS_TO_PURGE < Len(resolver.duplicate_ids)
                           THEN "delete" ELSE "find"]
    /\ UNCHANGED <<statistics_meta, statistics_runs, op, adjustments, backup,
                   tables_before, result, queue, ticks>>

\* delete_duplicates between its two calls: the backup file is written when
\* the hourly table gave non identical duplicates, then the short-term table
\* is taken up and its records are dropped
WriteBackup ==
    /\ resolver.pc = "backup"
    /\ LET non_identical_duplicates == resolver.all_non_identical_duplicates
       IN  backup' = IF non_identical_duplicates # << >>
                     THEN Some(json_dump(non_identical_duplicates))
                     ELSE backup
    /\ resolver' = enter_delete_duplicates_from_table("statistics_short_term")
    /\ UNCHANGED <<tables, op, adjustments, tables_before, result, queue, ticks>>

-----------------------------------------------------------------------------
(* Range Query *)

\* One psi in pascal: 6894.757
PsiInPa == <<6894757, 1000>>

\* pressure_util.convert between Pa and psi
pressure_convert(x, from_unit, to_unit) ==
    IF from_unit = to_unit THEN x
    ELSE IF from_unit = PRESSURE_PSI THEN RatMul(x, PsiInPa)
    ELSE RatMul(x, <<PsiInPa[2], PsiInPa[1]>>)

\* temperature_util.convert between Celsius and Fahrenheit
temperature_convert(x, from_unit, to_unit) ==
    IF from_unit = to_unit THEN x
    ELSE IF from_unit = TEMP_CELSIUS
    THEN RatAdd(RatMul(x, <<9, 5>>), Float(32))
    ELSE RatMul(RatAdd(x, Float(-32)), <<5, 9>>)

\* As statistic_unit_to_display_unit, an absent temperature taken for 0
statistic_unit_to_display_unit_unguarded(unit, x, units) ==
    IF unit = Some(PRESSURE_PA)
    THEN (IF x # None
          THEN pressure_convert(x, PRESSURE_PA, units.pressure_unit) ELSE None)
    ELSE IF unit = Some(TEMP_CELSIUS)
    THEN temperature_convert(IF x # None THEN x ELSE Float(0), TEMP_CELSIUS,
                             units.temperature_unit)
    ELSE IF unit = Some(VOLUME_CUBIC_METERS)
    THEN (IF x # None
          THEN volume_convert(x, VOLUME_CUBIC_METERS,
                              configured_unit(Some(VOLUME_CUBIC_METERS), units)[1])
          ELSE None)
    ELSE x

\* STATISTIC_UNIT_TO_DISPLAY_UNIT_CONVERSIONS.get(unit, lambda x, units: x)
statistic_unit_to_display_unit(unit, x, units) ==
    IF unit = Some(PRESSURE_PA)
    THEN (IF x # None
          THEN pressure_convert(x, PRESSURE_PA, units.pressure_unit) ELSE None)
    ELSE IF unit = Some(TEMP_CELSIUS)
    THEN (IF x # None
          THEN temperature_convert(x, TEMP_CELSIUS, units.temperature_unit) ELSE None)
    ELSE IF unit = Some(VOLUME_CUBIC_METERS)
    THEN (IF x # None
          THEN volume_convert(x, VOLUME_CUBIC_METERS,
                              configured_unit(Some(VOLUME_CUBIC_METERS), units)[1])
          ELSE None)
    ELSE x

\* A value of a series with unit of measurement unit, converted to the unit
\* the user has configured and, as adjust_statistics converts a value in that
\* unit, back
round_trip(unit, x, units) ==
    display_unit_to_statistic_unit(configured_unit(unit, units),
                                   statistic_unit_to_display_unit(unit, x, units), units)

\* datetime.isoformat(): the text of the instant
isoformat(t) == <<"isoformat", t>>

process_timestamp_to_utc_isoformat(ts) ==
    IF ts = None THEN None ELSE Some(isoformat(ts[1]))

\* table.duration
duration(table_name) == IF table_name = "statistics" THEN Hour ELSE FiveMinutes

\* .order_by(table.metadata_id, table.start), for the rows of one
\* metadata_id
order_by_start(rows) ==
    [k \in 1..Cardinality(rows) |->
        CHOOSE r \in rows :
            Cardinality({x \in rows : x.start < r.start
                                      \/ (x.start = r.start /\ x.id < r.id)}) = k - 1]

\* As statistics_during_period_stmt, end_time not looked at
statistics_during_period_stmt_open(table, start_time, end_time, metadata_ids) ==
    {r \in table :
        /\ r.start >= start_time
        /\ metadata_ids # None => r.metadata_id \in metadata_ids[1]}

\* _statistics_during_period_stmt, executed: end_time and metadata_ids are
\* None or Some
statistics_during_period_stmt(table, start_time, end_time, metadata_ids) ==
    {r \in table :
        /\ r.start >= start_time
        /\ end_time # None => r.start < end_time[1]
        /\ metadata_ids # None => r.metadata_id \in metadata_ids[1]}

\* As statistics_at_time, no row found
statistics_at_time_nothing(table, metadata_ids, start_time) == {}

\* _statistics_at_time: per metadata_id the row of max(id) among the rows
\* with start < start_time
statistics_at_time(table, metadata_ids, start_time) ==
    LET max_id == {Max({r.id : r \in {x \in table : x.start < start_time
                                                      /\ x.metadata_id = mid}})
                    : mid \in {m \in metadata_ids :
                                 \E x \in table : x.start < start_time
                                                  /\ x.metadata_id = m}}
    IN  {r \in table : r.id \in max_id}

\* One entry of the list of a statistic_id
statistic_entry(db_state, statistic_id, unit, units, table_name, start_time_as_datetime) ==
    LET start == process_timestamp(db_state.start)
        end == start + duration(table_name)
    IN  [statistic_id |-> statistic_id,
         start |-> IF start_time_as_datetime THEN start ELSE isoformat(start),
         end |-> isoformat(end),
         mean |-> statistic_unit_to_display_unit(unit, db_state.mean, units),
         min |-> statistic_unit_to_display_unit(unit, db_state.min, units),
         max |-> statistic_unit_to_display_unit(unit, db_state.max, units),
         last_reset |-> process_timestamp_to_utc_isoformat(db_state.last_reset),
         state |-> statistic_unit_to_display_unit(unit, db_state.state, units),
         sum |-> statistic_unit_to_display_unit(unit, db_state.sum, units)]

\* _sorted_statistics_to_dict with convert_units = True: stats the selected
\* rows, _metadata what get_metadata_with_session gave, start_time None or
\* Some
sorted_statistics_to_dict(stats, table, table_name, _metadata, start_time, start_time_as_datetime, units) ==
    LET metadata_ids == {r.metadata_id : r \in stats}
        metadata == [mid \in {_metadata[sid].id : sid \in DOMAIN _metadata} |->
                        (CHOOSE sid \in DOMAIN _metadata : _metadata[sid].id = mid)]
        group(mid) == order_by_start({r \in stats : r.metadata_id = mid})
        need_stat_at_start_time ==
            {mid \in metadata_ids :
                start_time # None /\ process_timestamp(group(mid)[1].start) > start_time[1]}
        tmp == IF need_stat_at_start_time # {}
               THEN statistics_at_time(table, need_stat_at_start_time, start_time[1])
               ELSE {}
        stats_at_start_time(mid) ==
            IF \E stat \in tmp : stat.metadata_id = mid
            THEN <<CHOOSE stat \in tmp : stat.metadata_id = mid>>
            ELSE << >>
        chain(mid) == stats_at_start_time(mid) \o group(mid)
    IN  [statistic_id \in {metadata[mid] : mid \in metadata_ids} |->
            LET mid == _metadata[statistic_id].id
                unit == _metadata[statistic_id].meta.unit_of_measurement
            IN  [k \in 1..Len(chain(mid)) |->
                    statistic_entry(chain(mid)[k], statistic_id, unit, units,
                                    table_name, start_time_as_datetime)]]

\* A dict without keys
EmptyDict == [x \in {} |-> None]

\* statistics_during_period for the periods "5minute" and "hour";
\* statistic_ids is None or Some
statistics_during_period_result(start_time, end_time, statistic_ids, period, start_time_as_datetime, units) ==
    LET metadata == get_metadata_with_session(statistics_meta, statistic_ids)
        metadata_ids == IF statistic_ids # None
                        THEN Some({metadata[sid].id : sid \in DOMAIN metadata})
                        ELSE None
        table_name == IF period = "5minute" THEN "statistics_short_term"
                      ELSE "statistics"
        table == IF period = "5minute" THEN statistics_short_term ELSE statistics
        stats == statistics_during_period_stmt(table, start_time, end_time, metadata_ids)
    IN  IF DOMAIN metadata = {} THEN EmptyDict
        ELSE IF stats = {} THEN EmptyDict
        ELSE sorted_statistics_to_dict(stats, table, table_name, metadata,
                                       Some(start_time), start_time_as_datetime, units)

-----------------------------------------------------------------------------
(* Clearing series *)

\* As on_delete_cascade, the rows of the series left in the table
on_delete_keep(table, deleted) == table

\* ForeignKey(StatisticsMeta.id, ondelete="CASCADE") of the bucket tables:
\* the rows of table that are left when the metadata rows deleted go
on_delete_cascade(table, deleted) ==
    {r \in table : r.metadata_id \notin {m.id : m \in deleted}}

\* clear_statistics, its session not yet committed
clear_statistics_session(W, statistic_ids) ==
    LET deleted == {m \in W.meta : m.statistic_id \in statistic_ids}
    IN  [W EXCEPT !.meta = @ \ deleted,
                  !.short_term = on_delete_cascade(@, deleted),
                  !.statistics = on_delete_cascade(@, deleted)]

-----------------------------------------------------------------------------
(* The Period Reducer *)

Day == 86400

\* A time zone: the offset from UTC is `before` for the instants earlier than
\* `at` and `after` from `at` on
TimeZone(before, at, after) == [before |-> before, at |-> at, after |-> after]

\* tzinfo.utcoffset of an instant
utcoffset(tz, time) == IF time < tz.at THEN tz.before ELSE tz.after

\* dt_util.as_local(time): the wall clock of DEFAULT_TIME_ZONE, in seconds
\* since 1970-01-01T00:00 of that clock
as_local(time, tz) == time + utcoffset(tz, time)

\* dt_util.as_utc of a wall clock of the zone (fold = 0: of the two instants
\* with one wall clock the earlier)
wall_as_utc(wall, tz) ==
    IF wall - tz.before < tz.at THEN wall - tz.before ELSE wall - tz.after

\* datetime.date of the day `days` after 1970-01-01 (proleptic Gregorian
\* calendar)
date(days) ==
    LET z == days + 719468
        era == z \div 146097
        doe == z - era * 146097
        yoe == (doe - doe \div 1460 + doe \div 36524 - doe \div 146096) \div 365
        doy == doe - (365 * yoe + yoe \div 4 - yoe \div 100)
        mp == (5 * doy + 2) \div 153
        m == IF mp < 10 THEN mp + 3 ELSE mp - 9
    IN  [year |-> yoe + era * 400 + (IF m <= 2 THEN 1 ELSE 0),
         month |-> m,
         day |-> doy - (153 * mp + 2) \div 5 + 1]

\* dt_util.as_local(time).date()
local_date(time, tz) == date(as_local(time, tz) \div Day)

same_day(time1, time2, tz) == local_date(time1, tz) = local_date(time2, tz)

\* day_start_end: <<start, end>>
day_start_end(time, tz) ==
    LET start == wall_as_utc((as_local(time, tz) \div Day) * Day, tz)
    IN  <<start, start + Day>>

same_month(time1, time2, tz) ==
    LET date1 == local_date(time1, tz)
        date2 == local_date(time2, tz)
    IN  <<date1.year, date1.month>> = <<date2.year, date2.month>>

\* datetime.replace(day=1, hour=0, minute=0, second=0, microsecond=0) of a
\* wall clock
replace_day_1(wall) == ((wall \div Day) - (date(wall \div Day).day - 1)) * Day

\* month_start_end: <<start, end>>
month_start_end(time, tz) ==
    LET start_local == replace_day_1(as_local(time, tz))
        end_local == replace_day_1(start_local + 31 * Day)
    IN  <<wall_as_utc(start_local, tz), wall_as_utc(end_local, tz)>>

\* The argument same_period of _reduce_statistics
same_period(period, time1, time2, tz) ==
    IF period = "day" THEN same_day(time1, time2, tz) ELSE same_month(time1, time2, tz)

\* The argument period_start_end of _reduce_statistics
period_start_end(period, time, tz) ==
    IF period = "day" THEN day_start_end(time, tz) ELSE month_start_end(time, tz)

\* The argument period of _reduce_statistics: timedelta(days=1) or
\* timedelta(days=31)
timedelta(period) == IF period = "day" THEN Day ELSE 31 * Day

\* dict.get(key)
get(statistic, key) == IF key \in DOMAIN statistic THEN statistic[key] ELSE None

RECURSIVE RatSumSeq(_)
RatSumSeq(values) ==
    IF values = << >> THEN Float(0) ELSE RatAdd(Head(values), RatSumSeq(Tail(values)))

\* As mean, the first value
mean_first(values) == values[1]

\* statistics.mean
mean(values) == RatMul(RatSumSeq(values), <<1, Len(values)>>)

\* min and max of a list of floats
min(values) ==
    values[CHOOSE i \in DOMAIN values : \A j \in DOMAIN values : ~RatLess(values[j], values[i])]

max(values) ==
    values[CHOOSE i \in DOMAIN values : \A j \in DOMAIN values : ~RatLess(values[i], values[j])]

\* values.append(statistic[key]) if statistic.get(key) is not None
appended(values, statistic, key) ==
    IF get(statistic, key) # None THEN Append(values, statistic[key]) ELSE values

\* The row _reduce_statistics appends when prev_stat was the last entry of
\* its period
reduced_row(statistic_id, period, prev_stat, max_values, mean_values, min_values, tz) ==
    LET start_end == period_start_end(period, prev_stat.start, tz)
    IN  [statistic_id |-> statistic_id,
         start |-> isoformat(start_end[1]),
         end |-> isoformat(start_end[2]),
         mean |-> IF mean_values # << >> THEN mean(mean_values) ELSE None,
         min |-> IF min_values # << >> THEN min(min_values) ELSE None,
         max |-> IF max_values # << >> THEN max(max_values) ELSE None,
         last_reset |-> get(prev_stat, "last_reset"),
         state |-> get(prev_stat, "state"),
         sum |-> prev_stat.sum]

\* The loop of _reduce_statistics over entries k.. of chained, the hourly
\* statistics and the fake entry that ends the period
RECURSIVE reduce_loop(_, _, _, _, _, _, _, _, _, _)
reduce_loop(statistic_id, period, tz, chained, k, prev_stat, max_values, mean_values, min_values, out) ==
    IF k > Len(chained) THEN out
    ELSE LET statistic == chained[k]
             ends == ~same_period(period, prev_stat.start, statistic.start, tz)
         IN  reduce_loop(
                 statistic_id, period, tz, chained, k + 1, statistic,
                 appended(IF ends THEN << >> ELSE max_values, statistic, "max"),
                 appended(IF ends THEN << >> ELSE mean_values, statistic, "mean"),
                 appended(IF ends THEN << >> ELSE min_values, statistic, "min"),
                 IF ends
                 THEN Append(out, reduced_row(statistic_id, period, prev_stat,
                                              max_values, mean_values, min_values, tz))
                 ELSE out)

\* The list _reduce_statistics builds for one statistic_id
reduce_stat_list(statistic_id, stat_list, period, tz) ==
    reduce_loop(statistic_id, period, tz,
                Append(stat_list,
                       [start |-> stat_list[Len(stat_list)].start + timedelta(period)]),
                1, stat_list[1], << >>, << >>, << >>, << >>)

\* _reduce_statistics: result is a defaultdict, a statistic_id without a row
\* is not among its keys
reduce_statistics(stats, period, tz) ==
    [statistic_id \in {sid \in DOMAIN stats :
                          reduce_stat_list(sid, stats[sid], period, tz) # << >>} |->
        reduce_stat_list(statistic_id, stats[statistic_id], period, tz)]

\* As hourly_statistics, no row from before start_time looked for
hourly_statistics_in_range(start_time, end_time, statistic_ids, units) ==
    LET metadata == get_metadata_with_session(statistics_meta, statistic_ids)
        metadata_ids == IF statistic_ids # None
                        THEN Some({metadata[sid].id : sid \in DOMAIN metadata})
                        ELSE None
        stats == statistics_during_period_stmt(statistics, start_time, end_time,
                                               metadata_ids)
    IN  IF DOMAIN metadata = {} THEN EmptyDict
        ELSE IF stats = {} THEN EmptyDict
        ELSE sorted_statistics_to_dict(stats, statistics, "statistics", metadata,
                                       None, TRUE, units)

\* What statistics_during_period hands to _reduce_statistics for the periods
\* "day" and "month": the hourly rows, their start a datetime
hourly_statistics(start_time, end_time, statistic_ids, units) ==
    statistics_during_period_result(start_time, end_time, statistic_ids, "hour", TRUE, units)

\* statistics_during_period for the periods "day" and "month"
statistics_during_period_reduced(start_time, end_time, statistic_ids, period, units, tz) ==
    LET hourly == hourly_statistics(start_time, end_time, statistic_ids, units)
    IN  IF DOMAIN hourly = {} THEN EmptyDict
        ELSE reduce_statistics(hourly, period, tz)

-----------------------------------------------------------------------------
(* External import: validation and the job queue *)

\* How the texts that are offered as a statistic_id or a source are spelled
Spelling(text) ==
    CASE text = "a:x" -> <<"a", ":", "x">>
      [] text = "b:y" -> <<"b", ":", "y">>
      [] text = "a:_x" -> <<"a", ":", "_", "x">>
      [] text = "a:x\n" -> <<"a", ":", "x", "\n">>
      [] text = "a" -> <<"a">>
      [] text = "b" -> <<"b">>
      [] text = "" -> << >>

\* The characters of the class [\da-z_] that the texts use
SlugCharacters == {"a", "b", "x", "y", "_"}

\* entity_id.split(":", 1)[0]
split_statistic_id_domain(statistic_id) ==
    LET s == Spelling(statistic_id)
        colons == {k \in 1..Len(s) : s[k] = ":"}
    IN  IF colons = {} THEN s
        ELSE SubSeq(s, 1, (CHOOSE k \in colons : \A j \in colons : k <= j) - 1)

\* VALID_STATISTIC_ID.match(statistic_id) is not None, for
\* ^(?!.+__)(?!_)[\da-z_]+(?<!_):(?!_)[\da-z_]+(?<!_)$ ; the $ matches at
\* the end of the text and also before a newline that ends it
valid_statistic_id(statistic_id) ==
    LET s == Spelling(statistic_id)
        end == IF Len(s) > 0 /\ s[Len(s)] = "\n" THEN Len(s) - 1 ELSE Len(s)
    IN  /\ \A k \in 2..(Len(s) - 1) : ~(s[k] = "_" /\ s[k + 1] = "_")
        /\ \E c \in 2..(end - 1) :
              /\ s[c] = ":"
              /\ \A k \in (1..end) \ {c} : s[k] \in SlugCharacters
              /\ s[1] # "_" /\ s[c - 1] # "_"
              /\ s[c + 1] # "_" /\ s[end] # "_"

\* start.second
second(t) == t % 60

\* dt_util.as_utc(start), for a start with a utc offset
as_utc(start) == start.wall - start.tzinfo[1][1]

\* The loop over the samples from the k-th on: the error raised, or "none"
RECURSIVE check_statistics(_, _)
check_statistics(stats, k) ==
    IF k > Len(stats) THEN "none"
    ELSE LET start == stats[k].start IN
         IF start.tzinfo = None \/ start.tzinfo = Some(None)
         THEN "Naive timestamp"
         ELSE IF minute(start.wall) # 0 \/ second(start.wall) # 0
                 \/ start.microsecond # 0
         THEN "Invalid timestamp"
         ELSE check_statistics(stats, k + 1)

\* The HomeAssistantError async_add_external_statistics raises, or "none"
async_add_external_statistics_error(metadata, stats) ==
    IF ~valid_statistic_id(metadata.statistic_id) THEN "Invalid statistic_id"
    ELSE IF \/ metadata.source = ""
            \/ Spelling(metadata.source) # split_statistic_id_domain(metadata.statistic_id)
    THEN "Invalid source"
    ELSE check_statistics(stats, 1)

\* The job put in the recorder's queue: the samples with start in UTC
external_statistics_job(metadata, stats) ==
    [metadata |-> metadata,
     statistics |-> [k \in 1..Len(stats) |-> [stats[k] EXCEPT !.start = as_utc(@)]]]

-----------------------------------------------------------------------------
(* Inputs *)

\* The samples the platforms may report in one tick
MaxSamples == 2

\* The rows a table may hold when only ticks run
MaxShortTermRows == 3

MaxStatisticsRows == 3

\* The rows a table may hold when ticks, imports and adjustments run
MaxRows == 2

\* The samples one import may carry
MaxImported == 1

\* The sum adjustments that may be applied
MaxAdjustments == 1

\* split_statistic_id(statistic_id)[0]
domain_of(statistic_id) == IF statistic_id = "a:x" THEN "a" ELSE "b"

MeanMeta(sid) ==
    [statistic_id |-> sid, source |-> domain_of(sid),
     unit_of_measurement |-> Some(PRESSURE_PA),
     has_mean |-> TRUE, has_sum |-> FALSE, name |-> None]

SumMeta(sid) ==
    [statistic_id |-> sid, source |-> domain_of(sid),
     unit_of_measurement |-> Some(VOLUME_CUBIC_METERS),
     has_mean |-> FALSE, has_sum |-> TRUE, name |-> None]

\* StatisticData of a measurement
StatA(start) ==
    [start |-> start, mean |-> Float(2), min |-> Float(1), max |-> Float(3)]

\* StatisticData with a mean and a state, its sum absent
StatB(start) ==
    [start |-> start, mean |-> Float(5), min |-> Float(4), max |-> Float(6),
     last_reset |-> None, state |-> Float(8), sum |-> None]

\* StatisticData of a counter
StatC(start) ==
    [start |-> start, last_reset |-> Some(0), state |-> Float(7), sum |-> Float(10)]

\* Series a:x as a counter, described by a producer that names itself b
ForeignMeta == [SumMeta("a:x") EXCEPT !.source = "b", !.name = Some("n")]

\* StatisticResult: what a platform may report for the period starting at
\* start.  Series a:x is reported as a measurement or as a counter, by its
\* own source or by another, series b:y as a counter.
Samples(start) ==
    {[meta |-> MeanMeta("a:x"), stat |-> StatA(start)],
     [meta |-> MeanMeta("a:x"), stat |-> StatB(start)],
     [meta |-> SumMeta("a:x"), stat |-> StatC(start)],
     [meta |-> ForeignMeta, stat |-> StatC(start)],
     [meta |-> SumMeta("b:y"), stat |-> StatC(start)]}

\* The counters alone
CounterSamples(start) ==
    {[meta |-> SumMeta("a:x"), stat |-> StatC(start)],
     [meta |-> SumMeta("b:y"), stat |-> StatC(start)]}

SeqsUpTo(S, n) == UNION {[1..k -> S] : k \in 0..n}

\* The periods a tick may be asked to compile: 00:55, 01:00 and 01:55
Starts == {3300, 3600, 6900}

\* 01:00 and 01:55
LaterStarts == {3600, 6900}

\* current_metadata: what the platforms read from the store for the series
\* they report, or for some of them
CurrentMetadatas(platform_stats) ==
    LET reported == {platform_stats[i].meta.statistic_id : i \in DOMAIN platform_stats}
        stored == {m.statistic_id : m \in statistics_meta}
    IN  {get_metadata_with_session(statistics_meta, Some(sids)) :
            sids \in SUBSET (reported \cap stored)}

\* What an external source may import for series a:x, at 00:00 or 01:00
ImportStats == {StatC(0), StatC(3600), StatA(3600)}

\* The instants a sum adjustment may name: 01:00:00, 01:30:00 and 01:30:15
AdjustTimes == {3600, 5400, 5415}

TickCap == [short_term |-> MaxShortTermRows, statistics |-> MaxStatisticsRows]

MixedCap == [short_term |-> MaxRows, statistics |-> MaxRows]

-----------------------------------------------------------------------------
(* Entry points *)

Op(name, start, outcome, ret) ==
    [name |-> name, start |-> start, outcome |-> outcome, ret |-> ret]

WithinBounds(W, cap) ==
    /\ Cardinality(W.short_term) <= cap.short_term
    /\ Cardinality(W.statistics) <= cap.statistics

\* session_scope leaves with a commit
Commit(W) ==
    /\ statistics_meta' = W.meta
    /\ statistics_short_term' = W.short_term
    /\ statistics' = W.statistics
    /\ statistics_runs' = W.runs

\* session_scope leaves with the exception W.err: the transaction is rolled
\* back; the exception is swallowed and the function returns True when the
\* filter says so, and leaves the function otherwise
Rollback(W, name, start) ==
    /\ Commit(session_scope(W))
    /\ op' = IF filter_unique_constraint_integrity_error(W.err)
             THEN Op(name, start, "integrity_error", TRUE)
             ELSE Op(name, start, W.err, FALSE)

\* compile_statistics(instance, start); outputs is what the platforms may
\* return when they are asked for the period
\* compile_statistics past the marker check: the platforms are asked and
\* what they return is inserted in the second session_scope
compile_statistics_insert(start, outputs, cap, faults) ==
    \E platform_stats \in outputs, fault \in faults :
       \E current_metadata \in CurrentMetadatas(platform_stats) :
          \E reached \in {compile_statistics_partial(start, platform_stats,
                                                      current_metadata, fault)} :
             \E W \in {storage_raises(reached, fault)} :
                IF W.err = "none"
                THEN /\ WithinBounds(W, cap)
                     /\ Commit(W)
                     /\ op' = Op("compile_statistics", Some(start), "committed", TRUE)
                ELSE Rollback(W, "compile_statistics", Some(start))

compile_statistics(start, outputs, cap, faults) ==
    /\ UNCHANGED adjustments
    /\ IF already_compiled(statistics_runs, start)
       THEN /\ UNCHANGED tables
            /\ op' = Op("compile_statistics", Some(start), "already_compiled", TRUE)
       ELSE compile_statistics_insert(start, outputs, cap, faults)

\* add_external_statistics(instance, metadata, statistics); a fault of stage
\* 3 is raised by the UPDATE of _update_statistics
add_external_statistics(metadata, stats, cap, faults) ==
    /\ UNCHANGED adjustments
    /\ \E fault \in faults, k \in {first_updated(metadata, stats)} :
         IF fault # None /\ fault[1].stage = 3 /\ fault[1].err = "statement_error"
            /\ k # 0
         THEN \E W \in {update_statistics_logged(metadata, stats, k)} :
                 IF W.err = "none"
                 THEN /\ WithinBounds(W, cap)
                      /\ Commit(W)
                      /\ op' = Op("add_external_statistics", None, fault[1].err, TRUE)
                 ELSE Rollback(W, "add_external_statistics", None)
         ELSE \E reached \in {add_external_statistics_partial(metadata, stats, fault)} :
                 \E W \in {storage_raises(reached, fault)} :
                    IF W.err = "none"
                    THEN /\ WithinBounds(W, cap)
                         /\ Commit(W)
                         /\ op' = Op("add_external_statistics", None, "committed", TRUE)
                    ELSE Rollback(W, "add_external_statistics", None)

\* adjust_statistics(instance, statistic_id, start_time, sum_adjustment)
\* clear_statistics(instance, statistic_ids)
clear_statistics(statistic_ids) ==
    /\ Commit(clear_statistics_session(Session, statistic_ids))
    /\ op' = Op("clear_statistics", Some(statistic_ids), "committed", TRUE)
    /\ UNCHANGED adjustments

adjust_statistics(statistic_id, start_time, sum_adjustment, units) ==
    LET metadata == get_metadata_with_session(statistics_meta, Some({statistic_id}))
    IN  IF statistic_id \notin DOMAIN metadata
        THEN /\ UNCHANGED <<tables, adjustments>>
             /\ op' = Op("adjust_statistics", Some(start_time), "no_metadata", TRUE)
        ELSE LET statistic_unit == metadata[statistic_id].meta.unit_of_measurement
                 display_unit == configured_unit(statistic_unit, units)
                 adj == display_unit_to_statistic_unit(display_unit, sum_adjustment,
                                                       units)
                 id == metadata[statistic_id].id
             IN  /\ adjustments < MaxAdjustments
                 /\ adjustments' = adjustments + 1
                 /\ statistics_short_term' =
                        adjust_sum_statistics(statistics_short_term, id, start_time, adj)
                 /\ statistics' =
                        adjust_sum_statistics(statistics, id,
                                              replace_minute_0(start_time), adj)
                 /\ UNCHANGED <<statistics_meta, statistics_runs>>
                 /\ op' = Op("adjust_statistics", Some(start_time), "committed", TRUE)

-----------------------------------------------------------------------------
(* Ticks alone, with every kind of sample *)

CompileStatistics ==
    /\ \E start \in Starts :
         compile_statistics(start, SeqsUpTo(Samples(start), MaxSamples), TickCap, {None})
    /\ UNCHANGED <<resolver_vars, result, queue, ticks>>

(* Ticks, imports and adjustments of counters *)

Tick ==
    /\ \E start \in LaterStarts :
         compile_statistics(start, SeqsUpTo(CounterSamples(start), MaxSamples), MixedCap,
                            {None})
    /\ UNCHANGED <<resolver_vars, result, queue, ticks>>

Import ==
    /\ \E stats \in SeqsUpTo(ImportStats, MaxImported) :
         add_external_statistics(SumMeta("a:x"), stats, MixedCap, {None})
    /\ UNCHANGED <<resolver_vars, result, queue, ticks>>

Adjust ==
    /\ \E start_time \in AdjustTimes, units \in UnitSystems :
         adjust_statistics("a:x", start_time, Float(5), units)
    /\ UNCHANGED <<resolver_vars, result, queue, ticks>>

(* The resolver over tables that hold duplicates, as a database from before
   the unique indexes may *)

\* The rows the two bucket tables may hold together
MaxDupRows == 5

\* (metadata_id, start) of the rows
DupKeys == {<<1, 3600>>, <<2, 0>>}

DupSums == {1, 2}

DupRow(id, key, s) ==
    [id |-> id, created |-> id, metadata_id |-> key[1], start |-> key[2],
     mean |-> None, min |-> None, max |-> None,
     last_reset |-> None, state |-> Float(s), sum |-> Float(s)]

\* The tables of n rows with the ids 1..n
DupTables(n) ==
    {{DupRow(k, f[k][1], f[k][2]) : k \in 1..n} : f \in [1..n -> DupKeys \X DupSums]}

DupMeta == {from_meta(1, SumMeta("a:x")), from_meta(2, SumMeta("b:y"))}

(* Imports of hourly history in any order, and range queries *)

\* The hourly rows the table may hold when history is imported
MaxHistoryRows == 3

\* 00:00, 01:00 and 02:00
HistoryStarts == {0, 3600, 7200}

\* The instants a range query may start at: 01:00 and 01:30
QueryTimes == {3600, 5400}

HistoryCap == [short_term |-> 0, statistics |-> MaxHistoryRows]

ImportHistory ==
    /\ \/ \E start \in HistoryStarts :
            add_external_statistics(SumMeta("a:x"), <<StatC(start)>>, HistoryCap, {None})
       \/ \E start \in HistoryStarts :
            add_external_statistics(MeanMeta("b:y"), <<StatA(start)>>, HistoryCap,
                                    {None})
    /\ UNCHANGED <<resolver_vars, result, queue, ticks>>

StatisticsDuringPeriod ==
    /\ \E start_time \in QueryTimes, end_time \in {None, Some(7200)},
          statistic_ids \in {None, Some({"a:x"})}, period \in {"5minute", "hour"},
          start_time_as_datetime \in BOOLEAN, units \in UnitSystems :
         /\ result' = Some([start_time |-> start_time, end_time |-> end_time,
                            statistic_ids |-> statistic_ids, period |-> period,
                            value |-> statistics_during_period_result(
                                         start_time, end_time, statistic_ids, period,
                                         start_time_as_datetime, units)])
         /\ op' = Op("statistics_during_period", Some(start_time), "returned", TRUE)
    /\ UNCHANGED <<tables, adjustments, resolver_vars, queue, ticks>>

(* Hourly rows around the end of a month and the end of daylight saving
   time, reduced to days and months *)

EtcUTC == TimeZone(0, 0, 0)

\* America/New_York in the autumn of 1970: UTC-4 until 1970-10-25T06:00Z,
\* UTC-5 from then on
AmericaNewYork == TimeZone(-14400, 25682400, -18000)

TimeZones == {EtcUTC, AmericaNewYork}

\* The hours a stored row may start at: 1970-10-01T04:00Z, 10-25T03:00Z,
\* 10-25T04:00Z, 10-26T04:00Z and 11-01T05:00Z, in New York 10-01 00:00,
\* 10-24 23:00, 10-25 00:00, 10-25 23:00 and 11-01 00:00
ReduceStarts == {23601600, 25671600, 25675200, 25761600, 26283600}

\* The instants a reduced query may start at
ReduceTimes == {23601600, 25675200}

\* The rows the hourly table may hold
MaxReduceRows == 3

ReduceCap == [short_term |-> 0, statistics |-> MaxReduceRows]

\* A value that tells the hours of ReduceStarts apart
ReduceValue(start) == (start \div Hour) % 11

\* StatisticData of a measurement in the hour starting at start
Reading(start) ==
    [start |-> start, mean |-> Float(ReduceValue(start)),
     min |-> Float(ReduceValue(start) - 1), max |-> Float(ReduceValue(start) + 2),
     last_reset |-> None, state |-> Float(ReduceValue(start)), sum |-> None]

\* StatisticData of a counter in the hour starting at start
Counted(start) ==
    [start |-> start, last_reset |-> Some(start - Hour),
     state |-> Float(ReduceValue(start)), sum |-> Float(10 * ReduceValue(start))]

\* The hourly rows are imported, then one query is made
ImportHourly ==
    /\ result = None
    /\ \/ \E start \in ReduceStarts :
            add_external_statistics(SumMeta("a:x"), <<Counted(start)>>, ReduceCap, {None})
       \/ \E start \in ReduceStarts :
            \E stat \in {Reading(start), Counted(start)} :
               add_external_statistics(MeanMeta("b:y"), <<stat>>, ReduceCap, {None})
    /\ UNCHANGED <<resolver_vars, result, queue, ticks>>

StatisticsDuringPeriodReduced ==
    /\ result = None
    /\ \E start_time \in ReduceTimes, end_time \in {None, Some(26283600)},
          statistic_ids \in {None, Some({"b:y"})}, period \in {"day", "month"},
          units \in {METRIC_SYSTEM}, tz \in TimeZones :
         /\ result' = Some([start_time |-> start_time, end_time |-> end_time,
                            statistic_ids |-> statistic_ids, period |-> period,
                            units |-> units, tz |-> tz,
                            value |-> statistics_during_period_reduced(
                                         start_time, end_time, statistic_ids, period,
                                         units, tz)])
         /\ op' = Op("statistics_during_period", Some(start_time), "returned", TRUE)
    /\ UNCHANGED <<tables, adjustments, resolver_vars, queue, ticks>>

(* Values converted to the configured unit and back *)

\* The units of measurement a series may have: the three normalized units,
\* a unit without conversion, and none
ConvertUnits ==
    {Some(PRESSURE_PA), Some(TEMP_CELSIUS), Some(VOLUME_CUBIC_METERS), Some("W"), None}

\* The values converted: -40, -1/2, 0, 1/3, 1, 3/2, 5, 100 and 1000
ConvertValues ==
    {Float(-40), Rat(-1, 2), Float(0), Rat(1, 3), Float(1), Rat(3, 2), Float(5),
     Float(100), Float(1000)}

\* A value of a series to show, in the unit of the series
InitConvert ==
    /\ statistics_meta = {}
    /\ statistics_short_term = {}
    /\ statistics = {}
    /\ statistics_runs = {}
    /\ op = Op("none", None, "none", TRUE)
    /\ adjustments = 0
    /\ resolver = [enter_delete_duplicates_from_table("statistics") EXCEPT !.pc = "idle"]
    /\ backup = None
    /\ tables_before = [statistics |-> {}, statistics_short_term |-> {}]
    /\ \E unit \in ConvertUnits, x \in ConvertValues, units \in UnitSystems :
          result = Some([unit |-> unit, units |-> units, x |-> x, in |-> "statistic_unit",
                         value |-> x])
    /\ queue = << >>
    /\ ticks = << >>

\* STATISTIC_UNIT_TO_DISPLAY_UNIT_CONVERSIONS applied, as for a response
StatisticUnitToDisplayUnit ==
    /\ result[1].in = "statistic_unit"
    /\ result' = Some([result[1] EXCEPT
                          !.in = "display_unit",
                          !.value = statistic_unit_to_display_unit(
                                        result[1].unit, @, result[1].units)])
    /\ UNCHANGED <<tables, op, adjustments, resolver_vars, queue, ticks>>

\* DISPLAY_UNIT_TO_STATISTIC_UNIT_CONVERSIONS applied, as for an adjustment
DisplayUnitToStatisticUnit ==
    /\ result[1].in = "display_unit"
    /\ result' = Some([result[1] EXCEPT
                          !.in = "statistic_unit_again",
                          !.value = display_unit_to_statistic_unit(
                                        configured_unit(result[1].unit, result[1].units),
                                        @, result[1].units)])
    /\ UNCHANGED <<tables, op, adjustments, resolver_vars, queue, ticks>>

(* Instants around the ends of months and of daylight saving time, and
   their days and months *)

\* Days since 1970-01-01 taken in UTC: 1970-01-01, 01-31, 02-01, 02-28,
\* 03-01, 04-30, 05-01, 12-31, 1971-01-01, 1972-02-29 and 1972-03-01
EtcUTCDays == {0, 30, 31, 58, 59, 119, 120, 364, 365, 789, 790}

\* Days taken in New York, where AmericaNewYork gives the offsets of the
\* zone: 1970-05-01, 05-31, 06-01, 06-30, 07-01, 10-25, 10-26, 10-31, 11-01,
\* 12-31, 1971-01-01, 02-01, 02-28 and 03-01
AmericaNewYorkDays ==
    {120, 150, 151, 180, 181, 297, 298, 303, 304, 364, 365, 396, 423, 424}

\* The hours of the UTC day taken: 04:00Z and 05:00Z are the midnights of
\* New York
PeriodHours == {0, 3, 4, 5, 12, 23}

PeriodTimes(days) == {d * Day + h * Hour : d \in days, h \in PeriodHours}

\* An instant and the time zone of the installation
PeriodInputs ==
    ({EtcUTC} \X PeriodTimes(EtcUTCDays))
    \cup ({AmericaNewYork} \X PeriodTimes(AmericaNewYorkDays))

InitPeriod ==
    /\ statistics_meta = {}
    /\ statistics_short_term = {}
    /\ statistics = {}
    /\ statistics_runs = {}
    /\ op = Op("none", None, "none", TRUE)
    /\ adjustments = 0
    /\ resolver = [enter_delete_duplicates_from_table("statistics") EXCEPT !.pc = "idle"]
    /\ backup = None
    /\ tables_before = [statistics |-> {}, statistics_short_term |-> {}]
    /\ \E input \in PeriodInputs, period \in {"day", "month"} :
          result = Some([tz |-> input[1], time |-> input[2], period |-> period,
                         in |-> "time", value |-> << >>])
    /\ queue = << >>
    /\ ticks = << >>

\* day_start_end(time) is called
DayStartEnd ==
    /\ result[1].in = "time"
    /\ result[1].period = "day"
    /\ result' = Some([result[1] EXCEPT
                          !.in = "start_end",
                          !.value = day_start_end(result[1].time, result[1].tz)])
    /\ UNCHANGED <<tables, op, adjustments, resolver_vars, queue, ticks>>

\* month_start_end(time) is called
MonthStartEnd ==
    /\ result[1].in = "time"
    /\ result[1].period = "month"
    /\ result' = Some([result[1] EXCEPT
                          !.in = "start_end",
                          !.value = month_start_end(result[1].time, result[1].tz)])
    /\ UNCHANGED <<tables, op, adjustments, resolver_vars, queue, ticks>>

(* Stored rows of series of every unit, as entries of a response *)

\* The values a column of a stored row may hold: none, -40, 1/3 and 100
EntryValues == {None, Float(-40), Rat(1, 3), Float(100)}

\* The hourly rows of 01:00 a response may be made of
EntryRows ==
    {[id |-> 1, created |-> 1, metadata_id |-> 1, start |-> Hour,
      mean |-> v[1], min |-> v[1], max |-> v[1], last_reset |-> None,
      state |-> v[2], sum |-> v[3]] :
     v \in EntryValues \X EntryValues \X EntryValues}

\* A stored row of series a:x, the unit of the series and the unit system
InitEntry ==
    /\ statistics_meta = {}
    /\ statistics_short_term = {}
    /\ statistics = {}
    /\ statistics_runs = {}
    /\ op = Op("none", None, "none", TRUE)
    /\ adjustments = 0
    /\ resolver = [enter_delete_duplicates_from_table("statistics") EXCEPT !.pc = "idle"]
    /\ backup = None
    /\ tables_before = [statistics |-> {}, statistics_short_term |-> {}]
    /\ \E unit \in ConvertUnits, db_state \in EntryRows, units \in UnitSystems :
          result = Some([unit |-> unit, units |-> units, db_state |-> db_state,
                         in |-> "db_state", value |-> << >>])
    /\ queue = << >>
    /\ ticks = << >>

\* The entry _sorted_statistics_to_dict appends for the row, convert_units
\* True
StatisticEntry ==
    /\ result[1].in = "db_state"
    /\ result' = Some([result[1] EXCEPT
                          !.in = "entry",
                          !.value = statistic_entry(result[1].db_state, "a:x",
                                                    result[1].unit, result[1].units,
                                                    "statistics", FALSE)])
    /\ UNCHANGED <<tables, op, adjustments, resolver_vars, queue, ticks>>

(* Ticks, and series cleared *)

\* The lists of series a caller may clear: a:x, b:y and c:z, which no tick
\* reports
ClearIds == SUBSET {"a:x", "b:y", "c:z"}

ClearStatistics ==
    /\ \E statistic_ids \in ClearIds : clear_statistics(statistic_ids)
    /\ UNCHANGED <<resolver_vars, result, queue, ticks>>

(* Ticks that interleave: two threads run compile_statistics *)

\* The ticks that may be past the marker check at one time
MaxTicks == 2

\* compile_statistics up to the end of its first session_scope
TickCheck ==
    /\ \E start \in LaterStarts :
         IF already_compiled(statistics_runs, start)
         THEN /\ op' = Op("compile_statistics", Some(start), "already_compiled", TRUE)
              /\ UNCHANGED ticks
         ELSE /\ Len(ticks) < MaxTicks
              /\ ticks' = Append(ticks, start)
              /\ op' = Op("compile_statistics", Some(start), "checked", TRUE)
    /\ UNCHANGED <<tables, adjustments, resolver_vars, result, queue>>

\* The rest of compile_statistics, for one of the ticks past the check
TickInsert ==
    /\ \E k \in DOMAIN ticks :
         /\ compile_statistics_insert(
                ticks[k], SeqsUpTo(CounterSamples(ticks[k]), MaxSamples), MixedCap, {None})
         /\ ticks' = [i \in 1..(Len(ticks) - 1) |-> IF i < k THEN ticks[i] ELSE ticks[i + 1]]
    /\ UNCHANGED <<adjustments, resolver_vars, result, queue>>

(* Ticks and imports on a storage that may fail *)

FaultyTick ==
    /\ \E start \in LaterStarts :
         compile_statistics(start, SeqsUpTo(CounterSamples(start), MaxSamples), MixedCap,
                            Faults(3))
    /\ UNCHANGED <<resolver_vars, result, queue, ticks>>

FaultyImport ==
    /\ \E stats \in SeqsUpTo(ImportStats, MaxImported) :
         add_external_statistics(SumMeta("a:x"), stats, MixedCap, Faults(3))
    /\ UNCHANGED <<resolver_vars, result, queue, ticks>>

(* External imports through the queue *)

\* The samples one call of async_add_external_statistics may carry
MaxBatch == 2

\* The jobs the queue may hold
MaxQueue == 1

\* A datetime: tzinfo is None, Some(None) for a tzinfo without utc offset, or
\* Some(Some(offset)); wall is the wall-clock time in seconds
Datetime(tzinfo, wall, microsecond) ==
    [tzinfo |-> tzinfo, wall |-> wall, microsecond |-> microsecond]

UTC == Some(Some(0))

ImportMeta(statistic_id, source) ==
    [statistic_id |-> statistic_id, source |-> source,
     unit_of_measurement |-> Some(VOLUME_CUBIC_METERS),
     has_mean |-> FALSE, has_sum |-> TRUE, name |-> None]

\* A well formed request, one with a newline after the statistic_id, one
\* with a malformed statistic_id, one without source and one with the source
\* of another domain
ImportMetadatas ==
    {ImportMeta("a:x", "a"), ImportMeta("a:x\n", "a"), ImportMeta("a:_x", "a"),
     ImportMeta("a:x", ""), ImportMeta("a:x", "b")}

\* Series a:x as its source describes it later: with a mean and no unit
RevisedMeta ==
    [ImportMeta("a:x", "a") EXCEPT !.has_mean = TRUE, !.unit_of_measurement = None]

\* The requests that async_add_external_statistics lets pass
AcceptedMetadatas ==
    {m \in ImportMetadatas \cup {RevisedMeta} :
        async_add_external_statistics_error(m, << >>) = "none"}

\* Samples at 00:00 and 01:00 UTC
GoodSamples ==
    {[StatC(0) EXCEPT !.start = Datetime(UTC, 0, 0)],
     [StatB(0) EXCEPT !.start = Datetime(UTC, 0, 0)],
     [StatC(0) EXCEPT !.start = Datetime(UTC, 3600, 0)]}

\* A sample at 00:00 UTC, and samples with a naive start, with a tzinfo
\* without offset, and at 00:05:00, 00:00:01 and 00:00:00.000001 UTC
MixedSamples ==
    {[StatC(0) EXCEPT !.start = Datetime(UTC, 0, 0)],
     [StatC(0) EXCEPT !.start = Datetime(None, 0, 0)],
     [StatC(0) EXCEPT !.start = Datetime(Some(None), 0, 0)],
     [StatC(0) EXCEPT !.start = Datetime(UTC, 300, 0)],
     [StatC(0) EXCEPT !.start = Datetime(UTC, 1, 0)],
     [StatC(0) EXCEPT !.start = Datetime(UTC, 0, 1)]}

\* The hourly rows an import may leave
MaxImportRows == 4

ImportCap == [short_term |-> 0, statistics |-> MaxImportRows]

\* async_add_external_statistics(hass, metadata, statistics); op keeps the
\* request of a call that raised, the queue the request of one that did not
async_add_external_statistics(metadata, stats) ==
    \E error \in {async_add_external_statistics_error(metadata, stats)} :
       IF error # "none"
       THEN /\ op' = Op("async_add_external_statistics",
                        Some([metadata |-> metadata, statistics |-> stats]),
                        error, FALSE)
            /\ UNCHANGED queue
       ELSE /\ Len(queue) < MaxQueue
            /\ queue' = Append(queue, external_statistics_job(metadata, stats))
            /\ op' = Op("async_add_external_statistics", None, "queued", TRUE)

\* A call with a request of any kind
AsyncAddExternalStatistics ==
    /\ \E metadata \in ImportMetadatas :
         \E stats \in SeqsUpTo(MixedSamples, MaxBatch) :
            async_add_external_statistics(metadata, stats)
    /\ UNCHANGED <<tables, adjustments, resolver_vars, result, ticks>>

\* A call with a request that passes, of up to MaxBatch samples
AsyncAddAccepted ==
    /\ \E metadata \in AcceptedMetadatas :
         \E stats \in SeqsUpTo(GoodSamples, MaxBatch) :
            async_add_external_statistics(metadata, stats)
    /\ UNCHANGED <<tables, adjustments, resolver_vars, result, ticks>>

\* The recorder takes the job at the head of the queue and runs
\* add_external_statistics
ProcessExternalStatistics ==
    /\ queue # << >>
    /\ add_external_statistics(Head(queue).metadata, Head(queue).statistics, ImportCap,
                               {None})
    /\ queue' = Tail(queue)
    /\ UNCHANGED <<resolver_vars, result, ticks>>

-----------------------------------------------------------------------------

vars ==
    <<statistics_meta, statistics_short_term, statistics, statistics_runs, op,
      adjustments, resolver, backup, tables_before, result, queue, ticks>>

Init ==
    /\ statistics_meta = {}
    /\ statistics_short_term = {}
    /\ statistics = {}
    /\ statistics_runs = {}
    /\ op = Op("none", None, "none", TRUE)
    /\ adjustments = 0
    /\ resolver = [enter_delete_duplicates_from_table("statistics") EXCEPT !.pc = "idle"]
    /\ backup = None
    /\ tables_before = [statistics |-> {}, statistics_short_term |-> {}]
    /\ result = None
    /\ queue = << >>
    /\ ticks = << >>

Next ==
    \/ Tick
    \/ Import
    \/ Adjust

Spec == Init /\ [][Next]_vars

SpecCompile == Init /\ [][CompileStatistics]_vars

\* delete_duplicates(hass, session) is entered: the session's database is one
\* from before the unique indexes, with whatever rows it came to hold
DeleteDuplicates ==
    /\ resolver.pc = "idle"
    /\ \E n \in 0..MaxDupRows :
         \E m \in 0..(MaxDupRows - n) :
            /\ statistics' \in DupTables(n)
            /\ statistics_short_term' \in DupTables(m)
    /\ statistics_meta' = DupMeta
    /\ op' = Op("delete_duplicates", None, "none", TRUE)
    /\ resolver' = enter_delete_duplicates_from_table("statistics")
    /\ tables_before' = [statistics |-> statistics',
                         statistics_short_term |-> statistics_short_term']
    /\ UNCHANGED <<statistics_runs, adjustments, backup, result, queue, ticks>>

NextDup ==
    \/ DeleteDuplicates
    \/ FindDuplicates
    \/ DeleteBatch
    \/ WriteBackup

SpecDup == Init /\ [][NextDup]_vars

NextQuery ==
    \/ ImportHistory
    \/ StatisticsDuringPeriod

SpecQuery == Init /\ [][NextQuery]_vars

NextReduce == ImportHourly \/ StatisticsDuringPeriodReduced

SpecReduce == Init /\ [][NextReduce]_vars

NextConvert == StatisticUnitToDisplayUnit \/ DisplayUnitToStatisticUnit

SpecConvert == InitConvert /\ [][NextConvert]_vars

SpecEntry == InitEntry /\ [][StatisticEntry]_vars

NextPeriod == DayStartEnd \/ MonthStartEnd

SpecPeriod == InitPeriod /\ [][NextPeriod]_vars

NextClear == CompileStatistics \/ ClearStatistics

SpecClear == Init /\ [][NextClear]_vars

NextRace == TickCheck \/ TickInsert

SpecRace == Init /\ [][NextRace]_vars

NextFault == FaultyTick \/ FaultyImport

SpecFault == Init /\ [][NextFault]_vars

NextImport ==
    \/ AsyncAddAccepted
    \/ ProcessExternalStatistics

SpecImport == Init /\ [][NextImport]_vars

NextValidate ==
    \/ AsyncAddExternalStatistics
    \/ ProcessExternalStatistics

SpecValidate == Init /\ [][NextValidate]_vars

\* delete_duplicates runs on without being interrupted
SpecDupFair == SpecDup /\ WF_vars(NextDup)

-----------------------------------------------------------------------------
(* Properties of the Short-Term Compiler and the Hourly Rollup *)

\* A step of compile_statistics that committed its transaction
TickCommitted == op'.name = "compile_statistics" /\ op'.outcome = "committed"

\* The hourly rows the step wrote
WrittenHourly == statistics' \ statistics

\* The short-term rows of metadata_id in [H, H + 1h), after the step
ShortTermOfHour(metadata_id, H) ==
    {x \in statistics_short_term' :
        x.metadata_id = metadata_id /\ H <= x.start /\ x.start < H + Hour}

\* C1: a tick for a period whose RunMarker exists returns success and leaves
\* the metadata, short-term, long-term and run-marker tables as they were.
C1_CompiledPeriodIsNoOp ==
    [][(/\ op'.name = "compile_statistics"
        /\ \E r \in statistics_runs : Some(r.start) = op'.start)
       => (/\ statistics_meta' = statistics_meta
           /\ statistics_short_term' = statistics_short_term
           /\ statistics' = statistics
           /\ statistics_runs' = statistics_runs
           /\ op'.ret = TRUE
           /\ op'.outcome = "already_compiled")]_vars

\* A tick met the marker of its period in a store that holds rows
C1_Witness ==
    /\ op.name = "compile_statistics"
    /\ op.outcome = "already_compiled"
    /\ \E r \in statistics_runs : Some(r.start) = op.start
    /\ statistics_short_term # {}
    /\ statistics # {}

NoTwoRowsShareKey(table) ==
    \A r1 \in table : \A r2 \in table \ {r1} :
        <<r1.metadata_id, r1.start>> # <<r2.metadata_id, r2.start>>

\* C2: after any sequence of ticks (with their rollups), imports and sum
\* adjustments, no two rows of one bucket table share (metadata_id, start).
C2_BucketKeysUnique ==
    /\ NoTwoRowsShareKey(statistics_short_term)
    /\ NoTwoRowsShareKey(statistics)

\* The 01:55 tick met an integrity error while the hour 01:00 held an
\* imported row: nothing of the tick was kept
C2_Witness ==
    /\ op = Op("compile_statistics", Some(6900), "integrity_error", TRUE)
    /\ \E r \in statistics : r.start = 3600
    /\ \A r \in statistics_runs : r.start # 6900

\* C7: an hourly row the rollup writes has the sum, state and last_reset of
\* the short-term row of its series with the greatest start in its hour.
C7_SumFromLatestRow ==
    [][TickCommitted =>
        \A r \in WrittenHourly :
            LET g == ShortTermOfHour(r.metadata_id, r.start)
            IN  /\ g # {}
                /\ \A last \in g :
                     (\A x \in g : x.start <= last.start)
                     => /\ r.sum = last.sum
                        /\ r.state = last.state
                        /\ r.last_reset = last.last_reset]_vars

\* The hour 01:00 was rolled up from a row with a sum followed by a latest
\* row without one: the hourly sum is absent
C7_Witness ==
    /\ op = Op("compile_statistics", Some(6900), "committed", TRUE)
    /\ \E r \in statistics :
         /\ r.start = 3600 /\ r.sum = None /\ r.state = Float(8)
         /\ \E x \in statistics_short_term :
              /\ x.metadata_id = r.metadata_id /\ x.start = 3600
              /\ x.sum = Float(10)
         /\ \E x \in statistics_short_term :
              /\ x.metadata_id = r.metadata_id /\ x.start = 6900
              /\ x.sum = None

\* v is the least (greatest, with sign = -1) of the non-absent values V,
\* absent when there is none
ExtremeOf(v, V, sign) ==
    IF V = {} THEN v = None
    ELSE /\ v \in V
         /\ \A w \in V : (w[1] * v[2] - v[1] * w[2]) * sign >= 0

\* C8: an hourly row the rollup writes has the arithmetic mean of the
\* non-absent short-term means of its series in its hour, the minimum of the
\* non-absent mins and the maximum of the non-absent maxs.
C8_MeanMinMaxOfHour ==
    [][TickCommitted =>
        \A r \in WrittenHourly :
            LET g == ShortTermOfHour(r.metadata_id, r.start)
                means == {[id |-> x.id, v |-> x.mean] : x \in {y \in g : y.mean # None}}
            IN  /\ IF means = {} THEN r.mean = None
                   ELSE /\ r.mean # None
                        /\ RatMul(r.mean, Float(Cardinality(means))) = RatSum(means)
                /\ ExtremeOf(r.min, {x.min : x \in g} \ {None}, 1)
                /\ ExtremeOf(r.max, {x.max : x \in g} \ {None}, -1)]_vars

\* The hour 01:00 of a series was rolled up from the means 2 and 5 to 7/2,
\* while the series has a row with a mean in the hour before
C8_Witness ==
    /\ op = Op("compile_statistics", Some(6900), "committed", TRUE)
    /\ \E r \in statistics :
         /\ r.start = 3600 /\ r.mean = <<7, 2>> /\ r.min = Float(1) /\ r.max = Float(6)
         /\ \E x \in statistics_short_term :
              x.metadata_id = r.metadata_id /\ x.start = 3300 /\ x.mean # None

\* C9, as the specification states it: the rollup is taken by the tick whose
\* start is on an hour boundary, for the hour that ended there, and by no
\* other tick.
C9_RollupAtHourBoundary ==
    [][TickCommitted =>
        LET start == op'.start[1]
        IN  IF start % Hour = 0
            THEN \A x \in statistics_short_term' :
                    (start - Hour <= x.start /\ x.start < start)
                    => \E r \in WrittenHourly :
                          r.metadata_id = x.metadata_id /\ r.start = start - Hour
            ELSE WrittenHourly = {}]_vars

\* C9, amended: the rollup is taken exactly by the tick of the last five
\* minutes of an hour (minute 55), for the hour that holds the tick's start,
\* and its rows are committed together with the RunMarker; a tick at any
\* other start, one on an hour boundary included, writes no hourly row, and
\* a tick that is rolled back leaves neither hourly rows nor a marker.
C9_RollupAtLastPeriodOfHour ==
    [][(op'.name = "compile_statistics" /\ op'.outcome # "already_compiled") =>
        LET start == op'.start[1]
            H == start - 55 * 60
        IN  IF op'.outcome = "committed"
            THEN /\ \E m \in statistics_runs' \ statistics_runs : m.start = start
                 /\ IF start % Hour = 55 * 60
                    THEN /\ \A r \in WrittenHourly : r.start = H
                         /\ \A x \in statistics_short_term' :
                              (H <= x.start /\ x.start < H + Hour)
                              => \E r \in WrittenHourly :
                                    r.metadata_id = x.metadata_id
                    ELSE WrittenHourly = {}
            ELSE /\ statistics' = statistics
                 /\ statistics_runs' = statistics_runs]_vars

\* The 01:55 tick committed an hourly row at 01:00 for a series that no
\* import writes, with its marker
C9_Witness ==
    /\ op = Op("compile_statistics", Some(6900), "committed", TRUE)
    /\ \E r \in statistics, m \in statistics_meta :
         r.start = 3600 /\ m.id = r.metadata_id /\ m.statistic_id = "b:y"
    /\ \E m \in statistics_runs : m.start = 6900

-----------------------------------------------------------------------------
(* Properties of the Duplicate Resolver *)

SameKey(r, x) == r.metadata_id = x.metadata_id /\ r.start = x.start

\* The row of the largest id among the rows of before with the key of r
Canonical(before, r) ==
    CHOOSE c \in before :
        SameKey(c, r) /\ \A x \in before : SameKey(x, r) => x.id <= c.id

\* r and c differ in a column other than id and created
Differs(r, c) ==
    \E column \in {"metadata_id", "start", "mean", "min", "max",
                   "last_reset", "state", "sum"} : r[column] # c[column]

\* The rows of before that are gone from now and differed from their
\* canonical row
DiscardedNonIdentical(before, now) ==
    {r \in before \ now : Differs(r, Canonical(before, r))}

\* The backup file holds a record of the discarded row r
Exported(r) ==
    /\ backup # None
    /\ \E k \in 1..Len(backup[1]) : backup[1][k].duplicate = r

\* C3: from any table contents the scan-and-delete loops end, and then
\* neither bucket table holds two rows of one (metadata_id, start).
C3_ResolverTerminatesWithoutDuplicates ==
    <>(/\ resolver.pc = "returned"
       /\ NoTwoRowsShareKey(statistics)
       /\ NoTwoRowsShareKey(statistics_short_term))

\* The resolver returned from an hourly table that held more duplicated rows
\* than one scan reads
C3_Witness ==
    /\ resolver.pc = "returned"
    /\ Cardinality(is_duplicate(tables_before.statistics))
         > ScanFactor * MAX_ROWS_TO_PURGE
    /\ Cardinality(statistics) < Cardinality(tables_before.statistics)

\* C4: the resolver only removes rows, it never removes the row of the
\* largest id of a (metadata_id, start) group, and when it has returned that
\* row, unchanged, is all that is left of each group; a row that shares its
\* key with no other row is its own group.
C4_LargestIdSurvives ==
    \A name \in {"statistics", "statistics_short_term"} :
        LET before == tables_before[name]
            now == IF name = "statistics" THEN statistics ELSE statistics_short_term
        IN  /\ now \subseteq before
            /\ \A r \in before : Canonical(before, r) \in now
            /\ resolver.pc = "returned"
               => now = {Canonical(before, r) : r \in before}

\* The resolver returned from an hourly table with a group of four rows,
\* which takes two scans and three DELETEs, beside a row that is alone
C4_Witness ==
    /\ resolver.pc = "returned"
    /\ Cardinality(is_duplicate(tables_before.statistics)) = 4
    /\ Cardinality(tables_before.statistics) = 5
    /\ Cardinality(statistics) = 2

-----------------------------------------------------------------------------
(* Properties of the Range Query *)

\* The stored hourly rows of the statistic_id
HourlyRowsOf(statistic_id) ==
    {r \in statistics :
        \E m \in statistics_meta :
            m.id = r.metadata_id /\ m.statistic_id = statistic_id}

\* C10: when an hourly range query puts a row from before start_time at the
\* head of the list of a series, that row is the stored row of the series
\* with the greatest start before start_time, in whatever order the rows
\* were inserted.
C10_LookBackIsLatestBefore ==
    [][(op'.name = "statistics_during_period" /\ result'[1].period = "hour") =>
        LET query == result'[1]
        IN  \A statistic_id \in DOMAIN query.value :
               LET first == query.value[statistic_id][1]
                   start == first.end[2] - Hour
               IN  start < query.start_time
                   => \A r \in HourlyRowsOf(statistic_id) :
                         r.start < query.start_time => r.start <= start]_vars

\* A query from 01:30 put the row of 01:00 before the row of 02:00
C10_Witness ==
    /\ op.name = "statistics_during_period"
    /\ result # None
    /\ result[1].period = "hour"
    /\ result[1].start_time = 5400
    /\ "a:x" \in DOMAIN result[1].value
    /\ Len(result[1].value["a:x"]) = 2
    /\ result[1].value["a:x"][1].end = isoformat(7200)
    /\ result[1].value["a:x"][2].end = isoformat(10800)

\* The statistic_ids an hourly query selects
Selected(query) ==
    {m.statistic_id : m \in {x \in statistics_meta :
        query.statistic_ids = None \/ x.statistic_id \in query.statistic_ids[1]}}

\* The stored hourly rows of the statistic_id inside the window of the query
InWindow(query, statistic_id) ==
    {r \in HourlyRowsOf(statistic_id) :
        /\ r.start >= query.start_time
        /\ query.end_time # None => r.start < query.end_time[1]}

\* The stored hourly rows of the statistic_id before the window of the query
BeforeWindow(query, statistic_id) ==
    {r \in HourlyRowsOf(statistic_id) : r.start < query.start_time}

\* C11, as the specification states it: a selected series without a row at
\* start_time and with a row before it has a list in the result, and the
\* list begins with a row from before start_time under that row's own start,
\* whether or not the series has a row inside the window.
C11_PriorRowFirstForEverySeries ==
    [][(op'.name = "statistics_during_period" /\ result'[1].period = "hour") =>
        LET query == result'[1]
        IN  \A statistic_id \in Selected(query) :
               (/\ \A r \in HourlyRowsOf(statistic_id) : r.start # query.start_time
                /\ BeforeWindow(query, statistic_id) # {})
               => /\ statistic_id \in DOMAIN query.value
                  /\ \E r \in BeforeWindow(query, statistic_id) :
                        query.value[statistic_id][1].end = isoformat(r.start + Hour)]_vars

\* C11, amended: a selected series has a list in the result exactly when it
\* has a row inside the window.  When it has, and has no row at start_time
\* but rows before it, the list begins with the row of the largest id among
\* those before start_time, under that row's own start and with its sum,
\* followed by the rows of the window; when it has a row at start_time, or
\* no row before it, the list is the rows of the window alone.
C11_PriorRowFirstWhenWindowHasRows ==
    [][(op'.name = "statistics_during_period" /\ result'[1].period = "hour") =>
        LET query == result'[1]
        IN  \A statistic_id \in Selected(query) :
               LET window == InWindow(query, statistic_id)
                   before == BeforeWindow(query, statistic_id)
                   unit == (CHOOSE m \in statistics_meta :
                               m.statistic_id = statistic_id).unit_of_measurement
               IN  IF window = {}
                   THEN statistic_id \notin DOMAIN query.value
                   ELSE /\ statistic_id \in DOMAIN query.value
                        /\ IF (\A r \in window : r.start # query.start_time) /\ before # {}
                           THEN LET prior == CHOOSE r \in before :
                                                \A x \in before : x.id <= r.id
                                    first == query.value[statistic_id][1]
                                IN  /\ Len(query.value[statistic_id]) = Cardinality(window) + 1
                                    /\ first.end = isoformat(prior.start + Hour)
                                    /\ \E units \in UnitSystems :
                                          first.sum = statistic_unit_to_display_unit(
                                                         unit, prior.sum, units)
                           ELSE /\ Len(query.value[statistic_id]) = Cardinality(window)
                                /\ query.value[statistic_id][1].end[2] - Hour
                                     >= query.start_time]_vars

\* A query from 01:30 gave series a:x its rows of 01:00 and 02:00, and gave
\* nothing for series b:y, whose only row is the one of 00:00
C11_Witness ==
    /\ op.name = "statistics_during_period"
    /\ result # None
    /\ result[1].period = "hour"
    /\ result[1].start_time = 5400
    /\ result[1].statistic_ids = None
    /\ DOMAIN result[1].value = {"a:x"}
    /\ result[1].value["a:x"][1].end = isoformat(7200)
    /\ \E r \in HourlyRowsOf("b:y") : r.start = 0

-----------------------------------------------------------------------------
(* External Statistics Importer *)

\* The step is a queued import that ran and was committed
ImportCommitted ==
    /\ queue # << >>
    /\ queue' = Tail(queue)
    /\ op'.name = "add_external_statistics"
    /\ op'.outcome = "committed"

RowsAt(table, metadata_id, start) ==
    {r \in table : r.metadata_id = metadata_id /\ r.start = start}

\* The last sample of stats that starts at start
LastAt(stats, start) ==
    stats[CHOOSE k \in DOMAIN stats :
            /\ stats[k].start = start
            /\ \A j \in DOMAIN stats : stats[j].start = start => j <= k]

ValuesAre(r, stat) ==
    /\ r.mean = Get(stat, "mean")
    /\ r.min = Get(stat, "min")
    /\ r.max = Get(stat, "max")
    /\ r.last_reset = Get(stat, "last_reset")
    /\ r.state = Get(stat, "state")
    /\ r.sum = Get(stat, "sum")

\* C12: a committed import leaves, for every start its samples name, exactly
\* one long-term row of the series at that start, holding the six values of
\* the last sample with that start; the row is the one that was there (same
\* id) when there was one and a new row otherwise, the table grows by one row
\* per start that had no row, and no other row changes.  Two samples of one
\* call with the same start therefore leave one row with the later values.
C12_ImportUpsertsByBucket ==
    [][ImportCommitted =>
        LET job == Head(queue)
            metadata_id ==
                (CHOOSE m \in statistics_meta' :
                    m.statistic_id = job.metadata.statistic_id).id
            starts == {job.statistics[k].start : k \in DOMAIN job.statistics}
            fresh == {start \in starts : RowsAt(statistics, metadata_id, start) = {}}
        IN  /\ \A start \in starts :
                 LET before == RowsAt(statistics, metadata_id, start)
                     after == RowsAt(statistics', metadata_id, start)
                 IN  /\ Cardinality(after) = 1
                     /\ \A r \in after : ValuesAre(r, LastAt(job.statistics, start))
                     /\ before # {} => {r.id : r \in after} = {r.id : r \in before}
                     /\ before = {} =>
                           \A r \in after : r.id \notin {x.id : x \in statistics}
            /\ Cardinality(statistics') = Cardinality(statistics) + Cardinality(fresh)
            /\ {r \in statistics' : ~(r.metadata_id = metadata_id /\ r.start \in starts)}
               = {r \in statistics : ~(r.metadata_id = metadata_id /\ r.start \in starts)}
    ]_vars

\* An import is about to run whose two samples start at the same time with
\* different values, on a store that an earlier import left with a row of the
\* series at that start, holding other values than the later sample
C12_Witness ==
    /\ queue # << >>
    /\ Len(Head(queue).statistics) = 2
    /\ Head(queue).statistics[1].start = Head(queue).statistics[2].start
    /\ Head(queue).statistics[1] # Head(queue).statistics[2]
    /\ \E m \in statistics_meta :
          /\ m.statistic_id = Head(queue).metadata.statistic_id
          /\ \E r \in RowsAt(statistics, m.id, Head(queue).statistics[2].start) :
                ~ValuesAre(r, Head(queue).statistics[2])

\* The text has the format <namespace>:<slug>: two non-empty runs of
\* [0-9a-z_] around one colon, neither starting nor ending with an
\* underscore, without a double underscore, and nothing else
WellFormed(statistic_id) ==
    LET s == Spelling(statistic_id)
    IN  /\ \A k \in 1..(Len(s) - 1) : ~(s[k] = "_" /\ s[k + 1] = "_")
        /\ \E c \in 2..(Len(s) - 1) :
              /\ s[c] = ":"
              /\ \A k \in (1..Len(s)) \ {c} : s[k] \in SlugCharacters
              /\ s[1] # "_" /\ s[c - 1] # "_"
              /\ s[c + 1] # "_" /\ s[Len(s)] # "_"

\* The namespace prefix of a well formed identifier
Namespace(statistic_id) ==
    LET s == Spelling(statistic_id)
    IN  SubSeq(s, 1, (CHOOSE c \in 1..Len(s) : s[c] = ":") - 1)

\* The request is one that the importer is to reject
Offending(metadata, stats) ==
    \/ ~WellFormed(metadata.statistic_id)
    \/ metadata.source = ""
    \/ Spelling(metadata.source) # Namespace(metadata.statistic_id)
    \/ \E k \in DOMAIN stats :
          \/ stats[k].start.tzinfo \in {None, Some(None)}
          \/ stats[k].start.wall % Hour # 0
          \/ stats[k].start.microsecond # 0

\* C13: a call of async_add_external_statistics that raises leaves the queue
\* and the store as they were, and a call that enqueues a job was made with a
\* well formed series identifier, with the identifier's namespace as source
\* and with samples at full hours only, so that every offending request is
\* rejected, nothing enqueued and nothing written.
C13_OffendingRequestsRejected ==
    [][/\ op'.name = "async_add_external_statistics" /\ op'.ret = FALSE
          => UNCHANGED <<tables, queue>>
       /\ Len(queue') > Len(queue)
          => LET job == queue'[Len(queue')]
             IN  /\ WellFormed(job.metadata.statistic_id)
                 /\ job.metadata.source # ""
                 /\ Spelling(job.metadata.source) = Namespace(job.metadata.statistic_id)
                 /\ \A k \in DOMAIN job.statistics : job.statistics[k].start % Hour = 0
    ]_vars

\* An import ran for a series whose identifier ends with a newline: the
\* series is in the metadata table
C13_Witness ==
    /\ \E m \in statistics_meta : ~WellFormed(m.statistic_id)
    /\ op.name = "add_external_statistics"
    /\ op.outcome = "committed"

\* C14: when an import has been committed, running add_external_statistics
\* again with the same metadata and samples on the store it left raises
\* nothing and leaves the metadata table and the long-term table as the first
\* run left them.
C14_ImportIdempotent ==
    [][ImportCommitted =>
        \E job \in {Head(queue)} :
           \E once \in {add_external_statistics_persist(job.metadata, job.statistics)} :
              \E twice \in {add_external_statistics_session(once, job.metadata,
                                                             job.statistics)} :
                 /\ once.err = "none"
                 /\ once.meta = statistics_meta'
                 /\ once.statistics = statistics'
                 /\ twice.err = "none"
                 /\ twice.meta = once.meta
                 /\ twice.statistics = once.statistics
    ]_vars

\* Imports have been committed for both series, one of them more than once
C14_Witness ==
    /\ op.name = "add_external_statistics"
    /\ op.outcome = "committed"
    /\ Cardinality(statistics_meta) = 2
    /\ Cardinality(statistics) = 3

-----------------------------------------------------------------------------
(* Sum Adjuster *)

\* The step is a sum adjustment of series a:x that was committed
Adjusted ==
    /\ adjustments' # adjustments
    /\ op'.name = "adjust_statistics"
    /\ op'.outcome = "committed"

\* The id of series a:x
AdjustedSeries == (CHOOSE m \in statistics_meta : m.statistic_id = "a:x").id

\* The adjustments that the delta 5 may become in the unit of the series
AppliedDeltas ==
    {display_unit_to_statistic_unit(
         configured_unit(m.unit_of_measurement, units), Float(5), units) :
     m \in {x \in statistics_meta : x.statistic_id = "a:x"}, units \in UnitSystems}

\* after is before, with adj added to the sums that the rows of the series
\* hold from cut on, every other row and column as it was
AdjustedFrom(before, after, cut, adj) ==
    after = {IF r.metadata_id = AdjustedSeries /\ r.start >= cut /\ r.sum # None
             THEN [r EXCEPT !.sum = RatAdd(@, adj)]
             ELSE r : r \in before}

\* The start of the hour that contains t
HourOf(t) == t - (t % Hour)

\* C15 as stated: an adjustment at T adds the delta to the sum of every row
\* of the series that starts at T or later, in both tables, and leaves every
\* other row, those of the series before T among them, as it was.
C15_AdjustedFromInstant ==
    [][Adjusted =>
        \E adj \in AppliedDeltas :
           /\ AdjustedFrom(statistics_short_term, statistics_short_term',
                           op'.start[1], adj)
           /\ AdjustedFrom(statistics, statistics', op'.start[1], adj)
    ]_vars

\* C15: an adjustment at T adds the delta, converted to the unit of the
\* series, to every sum that a row of the series holds, for the short-term
\* rows from T on and for the hourly rows that start at T or later; the
\* short-term rows before T, the hourly rows before the hour that contains T,
\* the rows of other series and every other column stay as they were, and no
\* row comes or goes.
C15_AdjustedFromInstantOrItsHour ==
    [][Adjusted =>
        \E adj \in AppliedDeltas :
           /\ AdjustedFrom(statistics_short_term, statistics_short_term',
                           op'.start[1], adj)
           /\ \E cut \in {HourOf(op'.start[1]), op'.start[1]} :
                 AdjustedFrom(statistics, statistics', cut, adj)
    ]_vars

\* An adjustment at 01:30 was committed on a store with an hourly row of the
\* series at 00:00, one at 01:00 and a short-term row at 01:55, all with sums
C15_Witness ==
    /\ op.name = "adjust_statistics"
    /\ op.outcome = "committed"
    /\ op.start = Some(5400)
    /\ \E r \in statistics : r.start = 0 /\ r.sum # None
    /\ \E r \in statistics : r.start = 3600 /\ r.sum # None
    /\ \E r \in statistics_short_term : r.start = 6900 /\ r.sum # None

\* C16 as stated: the hourly rows are adjusted from the start of the hour
\* that contains T, the short-term rows from T, whatever the minutes and
\* seconds of T.
C16_HourlyCutOffIsHourOfInstant ==
    [][Adjusted =>
        \E adj \in AppliedDeltas :
           /\ AdjustedFrom(statistics_short_term, statistics_short_term',
                           op'.start[1], adj)
           /\ AdjustedFrom(statistics, statistics', HourOf(op'.start[1]), adj)
    ]_vars

\* An adjustment at 01:30:15 was committed on a store with an hourly row of
\* the series at 01:00 that holds a sum
C16_Witness ==
    /\ op.name = "adjust_statistics"
    /\ op.outcome = "committed"
    /\ op.start = Some(5415)
    /\ \E r \in statistics : r.start = 3600 /\ r.sum # None

-----------------------------------------------------------------------------
(* Metadata Registry *)

\* The series in the metadata table
StoredIds == {m.statistic_id : m \in statistics_meta}

\* What the producers may pass as current_metadata: the stored metadata of
\* some of the stored series
StoredSubsets ==
    {get_metadata_with_session(statistics_meta, Some(sids)) : sids \in SUBSET StoredIds}

\* The descriptors a producer may report
Candidates == {MeanMeta("a:x"), SumMeta("a:x"), SumMeta("b:y")}

IdsOf(meta) == {m.id : m \in meta}

\* C17 as stated: no statistic_id has two metadata ids, and in every
\* reachable store resolving a stored series raises nothing, returns the
\* stored id and adds no metadata row, whatever part of the stored metadata
\* current_metadata holds; resolving an unseen series twice in one session
\* returns the same id both times and adds one row.
C17_ResolvingReturnsStoredId ==
    /\ StatisticIdsUnique(statistics_meta)
    /\ \A new_metadata \in Candidates : \A current_metadata \in StoredSubsets :
          \E once \in {update_or_add_metadata(Session, new_metadata,
                                               current_metadata)} :
             \E again \in {update_or_add_metadata(once.W, new_metadata,
                                                   current_metadata)} :
                /\ once.W.err = "none"
                /\ again.W.err = "none"
                /\ again.id = once.id
                /\ IdsOf(again.W.meta) = IdsOf(once.W.meta)
                /\ new_metadata.statistic_id \in StoredIds =>
                      /\ IdsOf(once.W.meta) = IdsOf(statistics_meta)
                      /\ \E m \in statistics_meta :
                            /\ m.statistic_id = new_metadata.statistic_id
                            /\ m.id = once.id

\* A tick for 01:00 was rolled back on a store that holds metadata: nothing
\* of the period is stored
C17_Witness ==
    /\ op = Op("compile_statistics", Some(3600), "integrity_error", TRUE)
    /\ statistics_meta # {}
    /\ \A r \in statistics_runs : r.start # 3600
    /\ \A r \in statistics_short_term : r.start # 3600

\* The metadata row m with has_mean, has_sum and unit of new_metadata
Redescribed(m, new_metadata) ==
    [m EXCEPT !.has_mean = new_metadata.has_mean,
              !.has_sum = new_metadata.has_sum,
              !.unit_of_measurement = new_metadata.unit_of_measurement]

\* C18: in every reachable store, resolving a series that current_metadata
\* knows raises nothing, returns the stored id and leaves the metadata table
\* as it was but for has_mean, has_sum and unit of that series, which are
\* those of the candidate, whatever source and name the candidate carries;
\* and no step changes the statistic_id, the source or the name of a metadata
\* row or removes one.
C18_KnownSeriesRedescribedInPlace ==
    [][/\ \A new_metadata \in Candidates \cup {ForeignMeta} :
          \A current_metadata \in StoredSubsets :
             new_metadata.statistic_id \in DOMAIN current_metadata =>
                \E res \in {update_or_add_metadata(Session, new_metadata,
                                                   current_metadata)} :
                   /\ res.W.err = "none"
                   /\ res.id = current_metadata[new_metadata.statistic_id].id
                   /\ res.W.meta =
                         {IF m.statistic_id = new_metadata.statistic_id
                          THEN Redescribed(m, new_metadata)
                          ELSE m : m \in statistics_meta}
                   /\ [res.W EXCEPT !.meta = statistics_meta] = Session
       /\ \A m \in statistics_meta :
             \E after \in statistics_meta' :
                /\ after.id = m.id
                /\ after.statistic_id = m.statistic_id
                /\ after.source = m.source
                /\ after.name = m.name
    ]_vars

\* Series a:x, first described by the producer b as a counter, was described
\* again by its own source as a measurement: the row has the mean and keeps
\* source and name
C18_Witness ==
    \E m \in statistics_meta :
       /\ m.statistic_id = "a:x"
       /\ m.source = "b"
       /\ m.name = Some("n")
       /\ m.has_mean
       /\ ~m.has_sum

-----------------------------------------------------------------------------
(* Failures of the storage *)

\* The step is a tick that found its period not compiled and has ended
TickEnded ==
    /\ op'.name = "compile_statistics"
    /\ op'.outcome # "already_compiled"

\* What a tick for the period start may leave when all it does is committed
WholeTicks(start) ==
    {compile_statistics_persist(start, platform_stats, current_metadata) :
        platform_stats \in SeqsUpTo(CounterSamples(start), MaxSamples),
        current_metadata \in StoredSubsets}

\* C19: a tick that has ended either left the four tables as they were, the
\* marker of its period absent, or left them as the whole of its persist step
\* does for some output of the platforms, the marker of its period new among
\* the run markers; the second only when it ended without error.  A
\* short-term row never is in the store without the marker of its period.
C19_TickAllOrNothing ==
    [][TickEnded =>
        /\ \/ /\ UNCHANGED tables
              /\ op'.outcome # "committed"
              /\ \A r \in statistics_runs' : Some(r.start) # op'.start
           \/ /\ op'.outcome = "committed"
              /\ \E W \in WholeTicks(op'.start[1]) :
                    /\ W.err = "none"
                    /\ Commit(W)
              /\ \A r \in statistics_runs : Some(r.start) # op'.start
              /\ \E r \in statistics_runs' : Some(r.start) = op'.start
        /\ \A r \in statistics_short_term' :
              \E k \in statistics_runs' : k.start = r.start
    ]_vars

\* The tick for 01:55 failed with an error that is not the unique-constraint
\* violation, after the tick for 01:00 was committed: the rows and the marker
\* of 01:00 are stored, nothing of 01:55 is
C19_Witness ==
    /\ op = Op("compile_statistics", Some(6900), "statement_error", FALSE)
    /\ \E r \in statistics_short_term : r.start = 3600
    /\ \E r \in statistics_runs : r.start = 3600
    /\ \A r \in statistics_short_term : r.start # 6900
    /\ \A r \in statistics_runs : r.start # 6900
    /\ \A r \in statistics : r.start # 3600

\* The step is a tick or an import that has ended
PersistEnded == op'.name \in {"compile_statistics", "add_external_statistics"}

\* C20 as stated: a tick or an import in which the storage raised the
\* unique-constraint violation returns True, nothing written, and one in
\* which the storage raised another error does not return: the error leaves
\* the function.
C20_OnlyUniqueViolationSwallowed ==
    [][PersistEnded =>
        /\ op'.outcome = "integrity_error" => op'.ret /\ UNCHANGED tables
        /\ op'.outcome \in StorageErrors \ {"unique_constraint"} => ~op'.ret
        /\ op'.outcome # "unique_constraint"
    ]_vars

\* An import found the row of its sample, the UPDATE raised a StatementError
\* that is not the unique-constraint violation, and the import returned True:
\* the row of 01:00 keeps the values of the import before
C20_Witness ==
    /\ op = Op("add_external_statistics", None, "statement_error", TRUE)
    /\ \E r \in statistics : r.start = 3600 /\ r.sum # None

-----------------------------------------------------------------------------
(* Two ticks for one period *)

\* C21 as stated: however two ticks for one period interleave, the store
\* holds at most one run marker per period start and at most one short-term
\* row per series and period start, and a tick that starts when the marker of
\* its period is committed writes nothing.
C21_OneMarkerAndOneRowPerPeriod ==
    /\ \A r1, r2 \in statistics_runs : r1.start = r2.start => r1 = r2
    /\ BucketKeysUnique(statistics_short_term)

\* The rows of the period are unique and a tick that finds the marker is a
\* no-op
C21_RowsUniqueAndLateTickNoOp ==
    [][/\ BucketKeysUnique(statistics_short_term')
       /\ (op'.name = "compile_statistics" /\ op'.outcome = "already_compiled")
          => UNCHANGED <<tables, ticks>>]_vars

\* Two ticks for 01:00 were past the marker check together and each has
\* committed: the period has two run markers, and the rows of one tick only
C21_Witness ==
    /\ ticks = << >>
    /\ Cardinality({r \in statistics_runs : r.start = 3600}) = 2
    /\ \E r \in statistics_short_term : r.start = 3600
    /\ BucketKeysUnique(statistics_short_term)

-----------------------------------------------------------------------------
(* The Period Reducer *)

\* The step is a query for days or months
ReducedQuery == result = None /\ result' # None

\* The hourly rows the query of result' handed to the reducer, per series
ReducerInput(q) ==
    hourly_statistics(q.start_time, q.end_time, q.statistic_ids, q.units)

\* The entries of stat_list in the local period of the instant time
PeriodRows(stat_list, time, q) ==
    {i \in DOMAIN stat_list : same_period(q.period, stat_list[i].start, time, q.tz)}

\* The mean of the values of field key that the entries rows of stat_list carry
MeanOf(stat_list, rows, key) ==
    LET with == {i \in rows : stat_list[i][key] # None}
    IN  IF with = {} THEN None
        ELSE RatMul(RatSum({[i |-> i, v |-> stat_list[i][key]] : i \in with}),
                    <<1, Cardinality(with)>>)

\* e is the least (greatest, when sign is -1) of the values of field key of
\* the entries rows of stat_list, None when none carries one
ExtremeIs(stat_list, rows, key, sign, e) ==
    LET with == {i \in rows : stat_list[i][key] # None}
    IN  IF with = {} THEN e = None
        ELSE /\ \E i \in with : e = stat_list[i][key]
             /\ \A i \in with :
                   IF sign = 1 THEN ~RatLess(stat_list[i][key], e)
                   ELSE ~RatLess(e, stat_list[i][key])

\* C22: every row the reducer emits for a series starts in a local period of
\* the series' input; its mean is the mean of the means the input rows of that
\* period carry, its min the least of their mins, its max the greatest of their
\* maxs (absent when no row carries one), and its sum, state and last_reset
\* are those of the last input row of that period.
C22_ReducedRowSummarizesItsPeriod ==
    [][ReducedQuery =>
        \E q \in {result'[1]} :
           \E input \in {ReducerInput(q)} :
              \A sid \in DOMAIN q.value :
                 \A k \in DOMAIN q.value[sid] :
                    LET e == q.value[sid][k]
                        stat_list == input[sid]
                        rows == PeriodRows(stat_list, e.start[2], q)
                        last == stat_list[Max(rows)]
                    IN  /\ rows # {}
                        /\ e.mean = MeanOf(stat_list, rows, "mean")
                        /\ ExtremeIs(stat_list, rows, "min", 1, e.min)
                        /\ ExtremeIs(stat_list, rows, "max", -1, e.max)
                        /\ e.sum = last.sum
                        /\ e.state = last.state
                        /\ e.last_reset = last.last_reset
    ]_vars

\* Days of New York were asked for and series b:y has a row of the last hour
\* of 10-24 and rows of the first and the last hour of 10-25: the day 10-24
\* has the values of its one row, the day 10-25 mean 5 of the means 4 and 6,
\* min 3 and max 8
C22_Witness ==
    /\ result # None
    /\ result[1].period = "day"
    /\ result[1].tz = AmericaNewYork
    /\ "b:y" \in DOMAIN result[1].value
    /\ Len(result[1].value["b:y"]) = 2
    /\ result[1].value["b:y"][1].mean = Float(3)
    /\ result[1].value["b:y"][2].mean = Float(5)
    /\ result[1].value["b:y"][2].min = Float(3)
    /\ result[1].value["b:y"][2].max = Float(8)

\* The local periods the entries of stat_list start in
LocalPeriods(stat_list, q) ==
    {IF q.period = "day" THEN local_date(stat_list[i].start, q.tz)
     ELSE [local_date(stat_list[i].start, q.tz) EXCEPT !.day = 1] : i \in DOMAIN stat_list}

\* The rows the reducer emitted for series sid
Emitted(q, sid) == IF sid \in DOMAIN q.value THEN q.value[sid] ELSE << >>

\* C23 as stated: for every series the reducer emits as many rows as there
\* are distinct local periods among the starts of the series' input rows.
C23_OneRowPerLocalPeriod ==
    [][ReducedQuery =>
        \E q \in {result'[1]} :
           \E input \in {ReducerInput(q)} :
              \A sid \in DOMAIN input :
                 Len(Emitted(q, sid)) = Cardinality(LocalPeriods(input[sid], q))
    ]_vars

\* Days of New York were asked for, all series, from 10-25 00:00 on; the
\* store holds hourly rows and the response is empty
C23_Witness ==
    /\ result # None
    /\ result[1].period = "day"
    /\ result[1].tz = AmericaNewYork
    /\ result[1].statistic_ids = None
    /\ result[1].start_time = 25675200
    /\ result[1].end_time = None
    /\ \E r \in statistics : r.start = 25675200
    /\ \A r \in statistics : r.start <= 25675200
    /\ DOMAIN result[1].value = {}

\* C27 as stated: the fake entry, one period length after the last input row
\* of a series, lies in another local period than that row, and the reducer
\* emits the period of the last input row.
C27_SentinelEndsLastPeriod ==
    [][ReducedQuery =>
        \E q \in {result'[1]} :
           \E input \in {ReducerInput(q)} :
              \A sid \in DOMAIN input :
                 LET last == input[sid][Len(input[sid])].start
                     out == Emitted(q, sid)
                 IN  /\ ~same_period(q.period, last, last + timedelta(q.period), q.tz)
                     /\ out # << >>
                     /\ out[Len(out)].start = isoformat(period_start_end(q.period, last, q.tz)[1])
    ]_vars

\* Months of New York were asked for and the last hourly row of series b:y is
\* that of 10-01 00:00: 31 days later it is 10-31 23:00 in New York, and the
\* response has no row of b:y
C27_Witness ==
    /\ result # None
    /\ result[1].period = "month"
    /\ result[1].tz = AmericaNewYork
    /\ \E m \in statistics_meta :
          /\ m.statistic_id = "b:y"
          /\ \E r \in statistics : r.metadata_id = m.id /\ r.start = 23601600
          /\ \A r \in statistics : r.metadata_id = m.id => r.start = 23601600
    /\ result[1].start_time = 23601600
    /\ "b:y" \notin DOMAIN result[1].value

-----------------------------------------------------------------------------
(* Clearing series *)

\* C24: a clear_statistics that has completed leaves no metadata row of a
\* series it names and no short-term or long-term row of such a series, and
\* leaves the metadata rows and the bucket rows of the other series as they
\* were.
C24_ClearRemovesNamedSeriesOnly ==
    [][op'.name = "clear_statistics" =>
        LET named == {m \in statistics_meta : m.statistic_id \in op'.start[1]}
            of_named(r) == r.metadata_id \in {m.id : m \in named}
        IN  /\ \A m \in statistics_meta' : m.statistic_id \notin op'.start[1]
            /\ \A r \in statistics_short_term' \cup statistics' : ~of_named(r)
            /\ statistics_meta' = statistics_meta \ named
            /\ statistics_short_term' = {r \in statistics_short_term : ~of_named(r)}
            /\ statistics' = {r \in statistics : ~of_named(r)}
            /\ UNCHANGED statistics_runs
    ]_vars

\* Series a:x was cleared; series b:y, created after it, keeps its metadata
\* row, a short-term row and an hourly row
C24_Witness ==
    /\ op.name = "clear_statistics"
    /\ "a:x" \in op.start[1]
    /\ \A m \in statistics_meta : m.statistic_id = "b:y" /\ m.id = 2
    /\ \E r \in statistics_short_term : r.metadata_id = 2
    /\ \E r \in statistics : r.metadata_id = 2
    /\ \A r \in statistics_short_term \cup statistics : r.metadata_id = 2
    /\ statistics_meta # {}

-----------------------------------------------------------------------------
(* The lifecycle of a bucket row *)

\* Row after is row before, changed
Changed(before, after) == after.id = before.id /\ after # before

\* after differs from before in its sum at most
OnlySum(before, after) == [after EXCEPT !.sum = before.sum] = before

\* after differs from before in its six value columns at most
OnlyValues(before, after) ==
    [after EXCEPT !.mean = before.mean, !.min = before.min, !.max = before.max,
                  !.last_reset = before.last_reset, !.state = before.state,
                  !.sum = before.sum] = before

\* C25 as stated: an hourly row that is stored is changed by the Sum Adjuster
\* only, and in its sum only; a short-term row that is stored is changed by
\* the Sum Adjuster or by an external import only.
C25_HourlyRowChangedByAdjusterOnly ==
    [][/\ \A before \in statistics : \A after \in statistics' :
             Changed(before, after)
             => op'.name = "adjust_statistics" /\ OnlySum(before, after)
       /\ \A before \in statistics_short_term : \A after \in statistics_short_term' :
             Changed(before, after)
             => op'.name \in {"adjust_statistics", "add_external_statistics"}
    ]_vars

\* C25, amended: an hourly row that is stored is changed by the Sum Adjuster,
\* in its sum only, or by an external import, in its six value columns only;
\* a short-term row that is stored is changed by the Sum Adjuster only, and in
\* its sum only.
C25_HourlyRowChangedByAdjusterOrImport ==
    [][/\ \A before \in statistics : \A after \in statistics' :
             Changed(before, after)
             => \/ op'.name = "adjust_statistics" /\ OnlySum(before, after)
                \/ op'.name = "add_external_statistics" /\ OnlyValues(before, after)
       /\ \A before \in statistics_short_term : \A after \in statistics_short_term' :
             Changed(before, after)
             => op'.name = "adjust_statistics" /\ OnlySum(before, after)
    ]_vars

\* The tick of 01:55 has written the hourly row of 01:00 for counter a:x, and
\* an import of a measurement for 01:00 has overwritten it: the row has mean 2
\* and no sum
C25_Witness ==
    /\ \E r \in statistics_runs : r.start = 6900
    /\ \E m \in statistics_meta :
          /\ m.statistic_id = "a:x"
          /\ \E r \in statistics_short_term : r.metadata_id = m.id /\ r.start = 6900
          /\ \E r \in statistics :
                /\ r.metadata_id = m.id
                /\ r.start = 3600
                /\ r.mean = Float(2)
                /\ r.sum = None

-----------------------------------------------------------------------------
(* Unit conversion *)

\* |p - q| <= 1e-9
Within1e9(p, q) ==
    LET diff == RatAdd(p, <<-q[1], q[2]>>)
        n == Abs(diff[1])
    IN  n = 0 \/ diff[2] \div n >= 1000000000

\* C26 as stated: a value of a series in a normalized unit, converted to the
\* configured display unit and back to the normalized unit, is the value
\* within 1e-9, for pressure, temperature and volume and for every unit
\* system.
C26_RoundTripReturnsValue ==
    (result[1].in = "statistic_unit_again"
     /\ result[1].unit \in {Some(PRESSURE_PA), Some(TEMP_CELSIUS), Some(VOLUME_CUBIC_METERS)})
    => Within1e9(result[1].value, result[1].x)

\* The round trip of a volume, and of every value whose display unit is the
\* unit of the series, returns the value
C26_VolumeRoundTripReturnsValue ==
    (result[1].in = "statistic_unit_again"
     /\ \/ result[1].unit = Some(VOLUME_CUBIC_METERS)
        \/ configured_unit(result[1].unit, result[1].units) = result[1].unit)
    => /\ result[1].value = result[1].x
       /\ result[1].value = round_trip(result[1].unit, result[1].x, result[1].units)

\* 1 Pa was converted to psi for a user of the imperial system and back: the
\* value is 1000/6894757, what it was in psi
C26_Witness ==
    /\ result[1].in = "statistic_unit_again"
    /\ result[1].unit = Some(PRESSURE_PA)
    /\ result[1].units = IMPERIAL_SYSTEM
    /\ result[1].x = Float(1)
    /\ result[1].value = <<1000, 6894757>>

-----------------------------------------------------------------------------
(* The tick that writes the hourly row *)

\* C28: an hourly row is written by the tick of the last five minutes of its
\* hour, at the hour-aligned start H of that hour and where no row of its
\* series and hour was stored; it summarizes the short-term rows of the hour
\* as they are after the tick, the rows this tick has inserted included: their
\* sum, state and last_reset are those of the hourly row.
C28_HourlyRowByTickOfLastInterval ==
    [][TickCommitted =>
        \A r \in WrittenHourly :
           LET start == op'.start[1]
               g == ShortTermOfHour(r.metadata_id, r.start)
               means == {[id |-> x.id, v |-> x.mean] : x \in {y \in g : y.mean # None}}
           IN  /\ minute(start) = 55
               /\ r.start = start - 55 * 60
               /\ r.start % Hour = 0
               /\ \A old \in statistics :
                     ~(old.metadata_id = r.metadata_id /\ old.start = r.start)
               /\ \A x \in g \ statistics_short_term :
                     /\ x.start = start
                     /\ r.sum = x.sum
                     /\ r.state = x.state
                     /\ r.last_reset = x.last_reset
               /\ IF means = {} THEN r.mean = None
                  ELSE /\ r.mean # None
                       /\ RatMul(r.mean, Float(Cardinality(means))) = RatSum(means)
               /\ ExtremeOf(r.min, {x.min : x \in g} \ {None}, 1)
               /\ ExtremeOf(r.max, {x.max : x \in g} \ {None}, -1)
    ]_vars

\* The tick of 01:55 inserted a row with mean 5 for a series that has a row
\* with mean 2 at 01:00, and wrote the hourly row of 01:00 with mean 7/2, min
\* 1 and max 6
C28_Witness ==
    /\ op = Op("compile_statistics", Some(6900), "committed", TRUE)
    /\ \E r \in statistics :
         /\ r.start = 3600 /\ r.mean = <<7, 2>> /\ r.min = Float(1) /\ r.max = Float(6)
         /\ r.state = Float(8)
         /\ \E x \in statistics_short_term :
              x.metadata_id = r.metadata_id /\ x.start = 3600 /\ x.mean = Float(2)
         /\ \E x \in statistics_short_term :
              x.metadata_id = r.metadata_id /\ x.start = 6900 /\ x.mean = Float(5)

\* C29: the tick that takes the rollup of hour [H, H+1) writes exactly one
\* hourly row, at H, for every series that has a short-term row in the hour;
\* when no row of the series in the hour carries a mean, a min or a max, the
\* hourly row has none either and has the sum, state and last_reset of the
\* row of the series with the greatest start in the hour.
C29_OneHourlyRowPerSeriesOfHour ==
    [][(TickCommitted /\ minute(op'.start[1]) = 55) =>
        LET H == op'.start[1] - 55 * 60
        IN  \A mid \in {x.metadata_id : x \in statistics_short_term'} :
               LET g == ShortTermOfHour(mid, H)
                   written == {r \in WrittenHourly : r.metadata_id = mid}
               IN  g # {} =>
                      /\ Cardinality(written) = 1
                      /\ \A r \in written :
                            /\ r.start = H
                            /\ (\A x \in g : x.mean = None /\ x.min = None /\ x.max = None)
                               => /\ r.mean = None /\ r.min = None /\ r.max = None
                                  /\ \E last \in g :
                                        /\ \A x \in g : x.start <= last.start
                                        /\ r.sum = last.sum
                                        /\ r.state = last.state
                                        /\ r.last_reset = last.last_reset
    ]_vars

\* The tick of 01:55 wrote the hourly row of 01:00 of a counter with rows at
\* 01:00 and 01:55: no mean, min or max, sum 10, state 7, last reset 00:00
C29_Witness ==
    /\ op = Op("compile_statistics", Some(6900), "committed", TRUE)
    /\ \E r \in statistics :
         /\ r.start = 3600 /\ r.mean = None /\ r.min = None /\ r.max = None
         /\ r.sum = Float(10) /\ r.state = Float(7) /\ r.last_reset = Some(0)
         /\ \E x \in statistics_short_term :
              x.metadata_id = r.metadata_id /\ x.start = 3600 /\ x.mean = None
         /\ \E x \in statistics_short_term :
              x.metadata_id = r.metadata_id /\ x.start = 6900 /\ x.mean = None

-----------------------------------------------------------------------------
(* What a range query returns *)

\* The start of an entry of a response, from its end
EntryStart(entry, q) ==
    entry.end[2] - duration(IF q.period = "5minute" THEN "statistics_short_term"
                            ELSE "statistics")

\* C30: the response of a range query has a list for exactly the requested
\* series (every series when none is named) that have a stored row with
\* start_time <= start < end_time (no upper bound without end_time); the list
\* holds these rows, one entry per row, by start ascending, after at most one
\* entry of a row that starts before start_time, and no such entry when the
\* earliest of the rows starts at start_time.
C30_RangeQueryReturnsRowsOfRange ==
    [][op'.name = "statistics_during_period" =>
        LET q == result'[1]
            table == IF q.period = "5minute" THEN statistics_short_term ELSE statistics
            requested(m) == q.statistic_ids = None \/ m.statistic_id \in q.statistic_ids[1]
            selected(m) ==
                {r \in table : /\ r.metadata_id = m.id
                               /\ q.start_time <= r.start
                               /\ q.end_time # None => r.start < q.end_time[1]}
        IN  /\ DOMAIN q.value =
                  {m.statistic_id : m \in {x \in statistics_meta :
                                              requested(x) /\ selected(x) # {}}}
            /\ \A m \in statistics_meta :
                  m.statistic_id \in DOMAIN q.value =>
                     LET entries == q.value[m.statistic_id]
                         look_back == Len(entries) - Cardinality(selected(m))
                     IN  /\ look_back \in {0, 1}
                         /\ {EntryStart(entries[k], q) : k \in (look_back + 1)..Len(entries)}
                               = {r.start : r \in selected(m)}
                         /\ \A k \in 1..(Len(entries) - 1) :
                               EntryStart(entries[k], q) < EntryStart(entries[k + 1], q)
                         /\ \A k \in DOMAIN entries : entries[k].statistic_id = m.statistic_id
                         /\ look_back = 1 =>
                               /\ EntryStart(entries[1], q) < q.start_time
                               /\ \E r \in table : /\ r.metadata_id = m.id
                                                   /\ r.start = EntryStart(entries[1], q)
                         /\ (\E r \in selected(m) : r.start = q.start_time) => look_back = 0
    ]_vars

\* Series a:x was asked for from 01:30 on, without end: the response has the
\* row of 01:00 before the row of 02:00 and nothing of series b:y, which has
\* a row too
C30_Witness ==
    /\ op.name = "statistics_during_period"
    /\ result # None
    /\ result[1].statistic_ids = Some({"a:x"})
    /\ result[1].start_time = 5400
    /\ result[1].end_time = None
    /\ result[1].period = "hour"
    /\ DOMAIN result[1].value = {"a:x"}
    /\ Len(result[1].value["a:x"]) = 2
    /\ result[1].value["a:x"][1].end = isoformat(7200)
    /\ result[1].value["a:x"][2].end = isoformat(10800)
    /\ \E m \in statistics_meta :
          m.statistic_id = "b:y" /\ \E r \in statistics : r.metadata_id = m.id

-----------------------------------------------------------------------------
(* Days and months as reduced hours *)

\* The response of the query of q for the period "hour", start a datetime
HourlyResponse(q) ==
    statistics_during_period_result(q.start_time, q.end_time, q.statistic_ids, "hour",
                                    TRUE, q.units)

\* C31: the response of a range query for days or months is the Period
\* Reducer applied to the response of the same query for hours, the row from
\* before start_time included; the list of every series of that response is
\* sorted by start.
C31_ReducedIsReducerOfHourly ==
    [][ReducedQuery =>
        \E q \in {result'[1]} :
           \E hourly \in {HourlyResponse(q)} :
              /\ q.value = IF DOMAIN hourly = {} THEN EmptyDict
                           ELSE reduce_statistics(hourly, q.period, q.tz)
              /\ \A sid \in DOMAIN hourly :
                    \A k \in 1..(Len(hourly[sid]) - 1) :
                       hourly[sid][k].start < hourly[sid][k + 1].start
    ]_vars

\* Days of New York were asked for from 10-25 00:00 on: the response has the
\* day 10-24 of series b:y, which ends where the query starts, made of the
\* row of 10-24 23:00, and the day 10-25 after it
C31_Witness ==
    /\ result # None
    /\ result[1].period = "day"
    /\ result[1].tz = AmericaNewYork
    /\ result[1].start_time = 25675200
    /\ "b:y" \in DOMAIN result[1].value
    /\ Len(result[1].value["b:y"]) = 2
    /\ result[1].value["b:y"][1].start = isoformat(25588800)
    /\ result[1].value["b:y"][1].end = isoformat(25675200)
    /\ result[1].value["b:y"][2].start = isoformat(25675200)

-----------------------------------------------------------------------------
(* Properties of the records of the Duplicate Resolver *)

\* The rows of before the resolver has taken for duplicates so far: those
\* gone from the table and those its pending DELETE statements name
Taken(before, now) ==
    {r \in before :
        \/ r \notin now
        \/ /\ resolver.pc = "delete"
           /\ \E k \in 1..Len(resolver.duplicate_ids) :
                 resolver.duplicate_ids[k] = r.id}

\* C32: while a table is worked on, the records of the resolver are, once
\* each, the pairs of a row taken for a duplicate that differs from the row
\* of the largest id of its own (metadata_id, start) group in a column other
\* than id and created, with that row of the largest id; no other record is
\* made.
C32_RecordIffDiffersFromCanonical ==
    resolver.pc \in {"find", "delete", "backup", "returned"}
    => \E before \in {tables_before[resolver.table]} :
          \E records \in {resolver.all_non_identical_duplicates} :
             \E D \in {{r \in Taken(before, resolver_table) :
                          Differs(r, Canonical(before, r))}} :
                /\ Len(records) = Cardinality(D)
                /\ \A r \in D : \E k \in 1..Len(records) :
                      records[k] = [duplicate |-> r,
                                    original |-> Canonical(before, r)]
                /\ \A k \in 1..Len(records) :
                      /\ records[k].duplicate \in D
                      /\ SameKey(records[k].duplicate, records[k].original)

\* The hourly table is done: of two groups with differing canonical rows one
\* lost a row equal to its canonical row, unrecorded, and one a row that
\* differs, recorded
C32_Witness ==
    /\ resolver.pc = "backup"
    /\ Len(resolver.all_non_identical_duplicates) = 1
    /\ \E r, x \in tables_before.statistics \ statistics :
          /\ ~SameKey(r, x)
          /\ ~Differs(r, Canonical(tables_before.statistics, r))
          /\ Differs(x, Canonical(tables_before.statistics, x))
          /\ Canonical(tables_before.statistics, x).sum
               # Canonical(tables_before.statistics, r).sum

-----------------------------------------------------------------------------
(* Properties of day_start_end and month_start_end *)

\* start and end bound the local period of time: start is its first
\* instant, end the first instant of the next one, and start <= time < end
BoundsLocalPeriod(period, time, start, end, tz) ==
    /\ start <= time
    /\ time < end
    /\ same_period(period, start, time, tz)
    /\ ~same_period(period, start - 1, time, tz)
    /\ same_period(period, end - 1, time, tz)
    /\ ~same_period(period, end, time, tz)

\* The bounds were computed for a period of the kind
StartEndOf(period) ==
    /\ result # None
    /\ result[1].in = "start_end"
    /\ result[1].period = period

\* C33, as the specification states it: the bounds day_start_end and
\* month_start_end return for an instant are the first instant of its local
\* day or month and the first instant of the next one, with the instant from
\* the start on and before the end.
C33_StartEndBoundLocalPeriod ==
    \A period \in {"day", "month"} :
        StartEndOf(period)
        => BoundsLocalPeriod(period, result[1].time, result[1].value[1],
                             result[1].value[2], result[1].tz)

\* C33, the months: the bounds of month_start_end are those of the local
\* month, of 28, 29, 30 or 31 days, over a year change and over the end of
\* daylight saving time.
C33_MonthStartEndBoundLocalMonth ==
    StartEndOf("month")
    => BoundsLocalPeriod("month", result[1].time, result[1].value[1],
                         result[1].value[2], result[1].tz)

\* C33, the days: the start day_start_end returns is the first instant of the
\* local day, and the end is 24 hours later; the end is the first instant of
\* the next local day when the UTC offset is the same at both.
C33_DayStartEndBoundLocalDayOf24Hours ==
    StartEndOf("day")
    => \E time \in {result[1].time}, tz \in {result[1].tz} :
          \E start \in {result[1].value[1]}, end \in {result[1].value[2]} :
             /\ start <= time
             /\ same_day(start, time, tz)
             /\ ~same_day(start - 1, time, tz)
             /\ end = start + Day
             /\ utcoffset(tz, start) = utcoffset(tz, end)
                => BoundsLocalPeriod("day", time, start, end, tz)

\* The bounds of the day of 1970-10-26T04:00Z in New York, which is
\* 1970-10-25 23:00 there, the 25th hour of the day: the end returned is that
\* instant
C33_Witness ==
    /\ StartEndOf("day")
    /\ result[1].tz = AmericaNewYork
    /\ as_local(result[1].time, result[1].tz) - as_local(result[1].value[1], result[1].tz)
         = 23 * Hour
    /\ result[1].time >= result[1].value[2]

-----------------------------------------------------------------------------
(* What the Sum Adjuster leaves alone *)

\* The table after holds the rows of the table before, each with its id: the
\* rows of the series may differ in their sum, when they had one, and every
\* other row is as it was
SumsOfSeriesOnly(before, after, series) ==
    /\ Cardinality(after) = Cardinality(before)
    /\ \A r \in before :
          \E x \in after :
             /\ x.id = r.id
             /\ OnlySum(r, x)
             /\ r.metadata_id # series => x = r
             /\ r.sum = None => x.sum = None

\* C34: a sum adjustment of series a:x that is committed leaves the metadata
\* and the run markers as they were, adds and removes no row, changes no
\* column but sum, no row of another series and no absent sum; a sum
\* adjustment of a series without metadata changes nothing and returns True.
C34_AdjusterChangesSumsOfSeriesOnly ==
    [][/\ Adjusted
          => /\ statistics_meta' = statistics_meta
             /\ statistics_runs' = statistics_runs
             /\ SumsOfSeriesOnly(statistics_short_term, statistics_short_term',
                                 AdjustedSeries)
             /\ SumsOfSeriesOnly(statistics, statistics', AdjustedSeries)
             /\ op'.ret = TRUE
       /\ op'.name = "adjust_statistics" /\ op'.outcome = "no_metadata"
          => /\ statistics_meta' = statistics_meta
             /\ statistics_runs' = statistics_runs
             /\ statistics_short_term' = statistics_short_term
             /\ statistics' = statistics
             /\ op'.ret = TRUE
    ]_vars

\* An adjustment at 01:00 was committed on a store that holds, from 01:00 on,
\* an hourly row of a:x without a sum, a short-term row of a:x with a sum and
\* a row of another series
C34_Witness ==
    /\ op.name = "adjust_statistics"
    /\ op.outcome = "committed"
    /\ op.start = Some(3600)
    /\ \E m \in statistics_meta :
          /\ m.statistic_id = "a:x"
          /\ \E r \in statistics :
                r.metadata_id = m.id /\ r.start >= 3600 /\ r.sum = None
          /\ \E r \in statistics_short_term :
                r.metadata_id = m.id /\ r.start >= 3600 /\ r.sum # None
          /\ \E r \in statistics_short_term \cup statistics :
                r.metadata_id # m.id /\ r.start >= 3600 /\ r.sum # None

-----------------------------------------------------------------------------
(* Properties of the conversion of a response *)

\* The normalized units STATISTIC_UNIT_TO_DISPLAY_UNIT_CONVERSIONS has a
\* conversion for
ConvertedUnits == {Some(PRESSURE_PA), Some(TEMP_CELSIUS), Some(VOLUME_CUBIC_METERS)}

\* C35: in the entry of a response the mean, min, max, state and sum of the
\* stored row are returned as they are stored when the unit of the series
\* has no conversion, and a value that is absent from the row is absent from
\* the entry whatever the unit and the unit system.
C35_NoConversionWithoutUnitOrValue ==
    (result # None /\ result[1].in = "entry")
    => \A column \in {"mean", "min", "max", "state", "sum"} :
          /\ result[1].unit \notin ConvertedUnits
             => result[1].value[column] = result[1].db_state[column]
          /\ result[1].db_state[column] = None
             => result[1].value[column] = None

\* The entry of a row of a series in W for a user of the imperial system: its
\* mean is the stored 1/3, its sum is absent as stored
C35_Witness ==
    /\ result # None
    /\ result[1].in = "entry"
    /\ result[1].unit = Some("W")
    /\ result[1].units = IMPERIAL_SYSTEM
    /\ result[1].db_state.mean = Rat(1, 3)
    /\ result[1].value.mean = Rat(1, 3)
    /\ result[1].db_state.sum = None
    /\ result[1].value.sum = None

====
